---- MODULE Spec2Model ----
(***************************************************************************)
(* wmt ("The Well-Maintained Test"): resolution of raw dependency          *)
(* identifiers into Crate records (CrateCheck::new) and the evaluation of  *)
(* the twelve criteria over them (CrateCheck::run_checks).                 *)
(*                                                                         *)
(* Strings the code inspects (ends_with, starts_with, contains, split,     *)
(* parse) are sequences of one-character strings.  Strings the code only   *)
(* builds and returns (explanations, statuses) are TLA+ strings.           *)
(* A Rust panic (unwrap on None/Err) is the outcome [panic |-> TRUE].      *)
(* Record constructors list their fields in one fixed order throughout.    *)
(***************************************************************************)
EXTENDS Integers, Sequences, FiniteSets, TLC

VARIABLES
    deps,       \* CrateCheck::new argument: the raw identifiers
    question,   \* run_checks argument: None or Some(number)
    world,      \* what the registry, the manifest files, the source host and docs.rs answer
    pc,         \* "new" | "run_checks" | "done" | "panicked";
                \* EvalSpec: "eval" | "evaluated"
    di,         \* CrateCheck::new: index of the next raw identifier
    crates,     \* CrateCheck.crates (crates_to_check while in new)
    ci,         \* run_checks: index of the current crate
    qi,         \* run_checks: index of the next selected question
    results,    \* run_checks: the result matrix built so far
    notices,    \* names written to stderr by run_checks ("... Will ignore.")
    panic_message, \* the panic message, "" while none
    log,        \* history: the resolutions and checks started so far, in order, each
                \* with the requests it sent
    probe       \* EvalSpec: the last evaluator call, its crate and its outcome

vars == <<deps, question, world, pc, di, crates, ci, qi, results, notices,
          panic_message, log, probe>>

\* Option<T>: None is the empty sequence, Some(x) the one-element sequence
None == <<>>

Some(x) == <<x>>

IsSome(o) == o # <<>>

\* Option::unwrap on a value known to be Some
Unwrap(o) == o[1]

----------------------------------------------------------------------------
(* Strings as sequences of characters                                      *)
(* A character of ASCII is the string of that character; a character       *)
(* beyond ASCII is the string of its code point, "U+" and four or more     *)
(* upper-case hexadecimal digits: "U+00E9", "U+2003".                      *)

Digits == <<"0", "1", "2", "3", "4", "5", "6", "7", "8", "9">>

IsDigit(c) == \E k \in 1..10 : Digits[k] = c

DigitVal(c) == (CHOOSE k \in 1..10 : Digits[k] = c) - 1

\* str::starts_with
StartsWith(s, p) == Len(s) >= Len(p) /\ SubSeq(s, 1, Len(p)) = p

\* str::ends_with
EndsWith(s, p) == Len(s) >= Len(p) /\ SubSeq(s, Len(s) - Len(p) + 1, Len(s)) = p

\* first index at which p occurs in s, 0 when it does not
Find(s, p) ==
    IF \E k \in 1..(Len(s) - Len(p) + 1) : SubSeq(s, k, k + Len(p) - 1) = p
    THEN CHOOSE k \in 1..(Len(s) - Len(p) + 1) :
            /\ SubSeq(s, k, k + Len(p) - 1) = p
            /\ \A j \in 1..(k - 1) : SubSeq(s, j, j + Len(p) - 1) # p
    ELSE 0

\* str::contains
Contains(s, p) == Find(s, p) # 0

\* str::split(pattern).collect(): n occurrences give n + 1 pieces, empty ones kept
RECURSIVE Split(_, _)
SplitAt(s, p, k) ==
    IF k = 0 THEN <<s>>
    ELSE <<SubSeq(s, 1, k - 1)>> \o Split(SubSeq(s, k + Len(p), Len(s)), p)

Split(s, p) == SplitAt(s, p, Find(s, p))

\* decimal text of a natural number, as characters
RECURSIVE NatText(_)
NatText(n) == IF n < 10 THEN <<Digits[n + 1]>> ELSE NatText(n \div 10) \o <<Digits[(n % 10) + 1]>>

RECURSIVE DigitsValue(_)
DigitsValue(s) ==
    IF s = <<>> THEN 0 ELSE 10 * DigitsValue(SubSeq(s, 1, Len(s) - 1)) + DigitVal(s[Len(s)])

\* str::parse::<u64>(): an optional '+', then one or more digits.  The texts of
\* this model have at most 9 digits, so the u64 overflow error cannot arise.
ParseDigits(body) ==
    IF body # <<>> /\ (\A k \in 1..Len(body) : IsDigit(body[k]))
    THEN [ok |-> TRUE, value |-> DigitsValue(body)]
    ELSE [ok |-> FALSE, value |-> 0]

ParseU64(s) == ParseDigits(IF s # <<>> /\ s[1] = "+" THEN Tail(s) ELSE s)

----------------------------------------------------------------------------
(* constants.rs                                                            *)

MISSING_FIELD_PLACEHOLDER == <<"N", "/", "A">>

MAX_DOWNLOAD_FOR_MINOR_VERSION == 500

QUESTION_EXPLANATION_SUFFIX == "The project has"

RUST_DOC_URL == <<"h", "t", "t", "p", "s", ":", "/", "/", "d", "o", "c", "s", ".", "r", "s">>

----------------------------------------------------------------------------
(* version.rs                                                              *)

\* Version::from_version_text: split on '.', then get(k).unwrap().parse::<u64>().unwrap()
\* for the first three pieces; either unwrap panics.
\* the struct literal of from_version_text, given its three parse results
version_literal(text, parsed) ==
    IF \A k \in 1..3 : parsed[k].ok
    THEN [panic |-> FALSE, id |-> text, major |-> parsed[1].value,
          minor |-> parsed[2].value, patch |-> parsed[3].value]
    ELSE [panic |-> TRUE, id |-> text, major |-> 0, minor |-> 0, patch |-> 0]

\* semver.get(k).unwrap().parse::<u64>() for k = 0, 1, 2; not ok where either fails
parse_semver(semver) ==
    [k \in 1..3 |-> IF k <= Len(semver) THEN ParseU64(semver[k])
                     ELSE [ok |-> FALSE, value |-> 0]]

from_version_text(text) == version_literal(text, parse_semver(Split(text, <<".">>)))

\* Version::at_least_one_major_release
at_least_one_major_release(self) == self.major > 0

\* a variant that asks for two minor releases
at_least_two_minor_releases(self) == self.minor >= 2

\* Version::at_least_one_minor_release
at_least_one_minor_release(self) == self.minor >= 1

----------------------------------------------------------------------------
(* The external services, as the program sees them.                        *)
(*   world.registry  : crate name -> crate_data of crates.io (absent: the  *)
(*                     lookup fails)                                       *)
(*   world.manifests : path -> the manifest's dependency set in key order  *)
(*                     (DepsSet is a BTreeMap); absent: it cannot be read  *)
(*   world.host      : <<owner, repo>> -> what api.github.com and          *)
(*                     github.com answer for that repository               *)
(*   world.docs      : URL -> what docs.rs answers                         *)

(* A request that fails answers None, one that succeeds Some(payload).      *)

\* crates_io_api SyncClient::get_crate as wrapped by CratesService::get_crate
get_crate(w, crate_name) ==
    IF crate_name \in DOMAIN w.registry
    THEN [ok |-> TRUE, crate_data |-> Some(w.registry[crate_name]),
          error |-> ""]
    ELSE [ok |-> FALSE, crate_data |-> None,
          error |-> "Could not retrieve the crate information. The crates.io API might be down."]

----------------------------------------------------------------------------
(* cargo_crate/mod.rs                                                      *)

NoCrate == [name |-> <<>>, source_url |-> None, description |-> None,
            documentation |-> None, homepage |-> None, version |-> None,
            created_at |-> None, updated_at |-> None, downloads |-> 0]

\* a variant that takes the URL for the name as well
from_source_named(github_url) ==
    [NoCrate EXCEPT !.name = github_url, !.source_url = Some(github_url)]

\* Crate::from_source
from_source(github_url) == [NoCrate EXCEPT !.source_url = Some(github_url)]

\* Crate::from_name: get_crate(name).unwrap().crate_data
\* the struct literal of Crate::from_name
crate_literal(name, local_version, crate_info) ==
    [name |-> name,
     source_url |-> crate_info.repository,
     description |-> crate_info.description,
     documentation |-> crate_info.documentation,
     homepage |-> crate_info.homepage,
     version |-> Some([remote |-> Some(crate_info.max_version), local |-> local_version]),
     created_at |-> Some(crate_info.created_at),
     updated_at |-> Some(crate_info.updated_at),
     downloads |-> crate_info.downloads]

\* a variant that goes on with an empty crate when the lookup fails
from_response_lenient(name, local_version, response) ==
    [panic |-> FALSE, message |-> "",
     crate |-> IF response.ok
               THEN crate_literal(name, local_version, Unwrap(response.crate_data))
               ELSE NoCrate]

\* Crate::from_name, given the registry's response
from_response(name, local_version, response) ==
    IF ~response.ok
    THEN [panic |-> TRUE, message |-> response.error, crate |-> NoCrate]
    ELSE [panic |-> FALSE, message |-> "",
          crate |-> crate_literal(name, local_version, Unwrap(response.crate_data))]

from_name(w, name, local_version) == from_response(name, local_version, get_crate(w, name))

\* Crate::dependency_without_version
dependency_without_version == [version |-> Some(MISSING_FIELD_PLACEHOLDER)]

\* cargo_toml Dependency::detail: Some for a detail table, None for a plain version string
detail(dep) == IF dep.kind = "Detailed" THEN Some([version |-> dep.version]) ELSE None

\* Crate::extract_dependencies_from_manifest: Manifest::from_path(path).unwrap().dependencies
extract_dependencies_from_manifest(w, path) ==
    IF path \in DOMAIN w.manifests
    THEN [panic |-> FALSE, dependencies |-> w.manifests[path]]
    ELSE [panic |-> TRUE, dependencies |-> <<>>]

\* dep.1.detail().unwrap_or(&dependency_without_version).version
unwrap_or_version(d) == (IF d = None THEN dependency_without_version ELSE Unwrap(d)).version

\* the loop of Crate::from_manifest over the entries from the k-th on
RECURSIVE from_manifest_loop(_, _, _, _)
from_manifest_push(w, manifest_content, k, dependencies, full_dependency) ==
    IF full_dependency.panic
    THEN [crates |-> <<>>, panic |-> TRUE, message |-> full_dependency.message]
    ELSE from_manifest_loop(w, manifest_content, k + 1,
                            Append(dependencies, full_dependency.crate))

from_manifest_loop(w, manifest_content, k, dependencies) ==
    IF k > Len(manifest_content)
    THEN [crates |-> dependencies, panic |-> FALSE, message |-> ""]
    ELSE from_manifest_push(w, manifest_content, k, dependencies,
             from_name(w, manifest_content[k].name,
                       unwrap_or_version(detail(manifest_content[k].dependency))))

\* Crate::from_manifest, given the manifest's dependency set
from_manifest_content(w, manifest_content) ==
    IF manifest_content.panic
    THEN [crates |-> <<>>, panic |-> TRUE, message |-> "Manifest::from_path: the manifest cannot be read"]
    ELSE from_manifest_loop(w, manifest_content.dependencies, 1, <<>>)

\* Crate::from_manifest
from_manifest(w, manifest_file) ==
    from_manifest_content(w, extract_dependencies_from_manifest(w, manifest_file))

----------------------------------------------------------------------------
(* github/mod.rs                                                           *)

GITHUB_COM == <<"g", "i", "t", "h", "u", "b", ".", "c", "o", "m">>

\* Iterator::filter(|n| !n.is_empty()).collect()
RECURSIVE NonEmpty(_)
NonEmpty(pieces) ==
    IF pieces = <<>> THEN <<>>
    ELSE (IF Head(pieces) = <<>> THEN <<>> ELSE <<Head(pieces)>>) \o NonEmpty(Tail(pieces))

\* GithubService::new: split_url.get(1).unwrap(), url_parts.get(0).unwrap(),
\* url_parts.get(1).unwrap()
GithubService_literal(url, url_parts) ==
    IF Len(url_parts) < 2
    THEN [panic |-> TRUE, url |-> url, owner |-> <<>>, repo |-> <<>>]
    ELSE [panic |-> FALSE, url |-> url, owner |-> url_parts[1], repo |-> url_parts[2]]

GithubService_parts(url, split_url) ==
    IF Len(split_url) < 2
    THEN [panic |-> TRUE, url |-> url, owner |-> <<>>, repo |-> <<>>]
    ELSE GithubService_literal(url, NonEmpty(Split(split_url[2], <<"/">>)))

GithubService_new(url) == GithubService_parts(url, Split(url, GITHUB_COM))

\* what the source host answers for every request about a repository it does not know
UnknownRepo == [repo |-> None, blob |-> None, latest_release |-> [fetch |-> "err"],
                content |-> None, bugs |-> None, workflows |-> None, runs |-> None,
                commits |-> None, metrics |-> None]

\* the source host's data for the repository a GithubService addresses
Host(w, gs) ==
    IF <<gs.owner, gs.repo>> \in DOMAIN w.host THEN w.host[<<gs.owner, gs.repo>>]
    ELSE UnknownRepo

\* GithubService::get_repo_metrics
get_repo_metrics(w, gs) ==
    LET h == Host(w, gs)
    IN  IF h.metrics = None THEN [ok |-> FALSE, files |-> <<>>]
        ELSE [ok |-> TRUE, files |-> Unwrap(h.metrics).files]

\* GithubService::build_file_url: get_repo() unwraps the fetch, then default_branch.unwrap().
\* The URL is kept as the pair it addresses: the branch and the file.
build_file_url(w, gs, file) ==
    LET h == Host(w, gs)
    IN  IF h.repo = None \/ Unwrap(h.repo).default_branch = None
        THEN [panic |-> TRUE, file |-> file, branch |-> ""]
        ELSE [panic |-> FALSE, file |-> file, branch |-> Unwrap(Unwrap(h.repo).default_branch)]

\* GithubService::get_latest_release: Err both for a failed request and for the
\* 404 of a repository without a release
get_latest_release(w, gs) ==
    LET h == Host(w, gs)
    IN  IF h.latest_release.fetch # "ok"
        THEN [ok |-> FALSE, release |-> None]
        ELSE [ok |-> TRUE, release |-> Some(h.latest_release)]

\* GithubService::changelog_note_exists: reqwest::blocking::get(url).unwrap().status().is_success()
changelog_note_exists(w, gs) ==
    LET h == Host(w, gs)
        file_url == build_file_url(w, gs, "CHANGELOG.md")
    IN  IF file_url.panic \/ h.blob = None
        THEN [value |-> FALSE, panic |-> TRUE]
        ELSE [value |-> <<file_url.branch, file_url.file>> \in Unwrap(h.blob), panic |-> FALSE]

\* GithubService::release_changelog_exists
release_changelog_exists(w, gs) ==
    LET latest_release == get_latest_release(w, gs)
    IN  IF latest_release.ok
        THEN [body |-> Unwrap(latest_release.release).body, ok |-> TRUE, error |-> ""]
        ELSE [body |-> None, ok |-> FALSE, error |-> "Could not get changelog"]

\* GithubService::get_repo_content: send().await.unwrap().items
get_repo_content(w, gs) ==
    LET h == Host(w, gs)
    IN  IF h.content = None THEN [panic |-> TRUE, items |-> <<>>]
        ELSE [panic |-> FALSE, items |-> Unwrap(h.content)]

\* a variant of the loop that keeps files as well
RECURSIVE test_entries(_)
test_entries(items) ==
    IF items = <<>> THEN <<>>
    ELSE (IF Contains(Head(items).path, <<"t", "e", "s", "t">>)
          THEN <<Head(items)>> ELSE <<>>) \o test_entries(Tail(items))

\* the loop of GithubService::get_test_files
RECURSIVE test_dirs(_)
test_dirs(items) ==
    IF items = <<>> THEN <<>>
    ELSE (IF Head(items).type = "dir" /\ Contains(Head(items).path, <<"t", "e", "s", "t">>)
          THEN <<Head(items)>> ELSE <<>>) \o test_dirs(Tail(items))

\* GithubService::get_test_files
get_test_files(w, gs) ==
    LET repo_content == get_repo_content(w, gs)
    IN  IF repo_content.panic THEN [panic |-> TRUE, items |-> <<>>]
        ELSE [panic |-> FALSE, items |-> test_dirs(repo_content.items)]

\* GithubService::get_bugs(State::Open): send().await.unwrap().items
get_bugs(w, gs) ==
    LET h == Host(w, gs)
    IN  IF h.bugs = None THEN [panic |-> TRUE, items |-> <<>>]
        ELSE [panic |-> FALSE, items |-> Unwrap(h.bugs)]

\* GithubService::get_workflows: send().await.unwrap().items
get_workflows(w, gs) ==
    LET h == Host(w, gs)
    IN  IF h.workflows = None THEN [panic |-> TRUE, items |-> <<>>]
        ELSE [panic |-> FALSE, items |-> Unwrap(h.workflows)]

\* GithubService::get_latest_commits: get_json, a reqwest::Result
get_latest_commits(w, gs) ==
    LET h == Host(w, gs)
    IN  IF h.commits = None THEN [ok |-> FALSE, commits |-> <<>>]
        ELSE [ok |-> TRUE, commits |-> Unwrap(h.commits)]

\* Iterator::filter over a sequence of workflow runs: the query of get_workflow_runs
RECURSIVE failed_runs_on(_, _)
failed_runs_on(runs, branch) ==
    IF runs = <<>> THEN <<>>
    ELSE (IF Head(runs).status = "failed" /\ Head(runs).branch = branch
             /\ ~Head(runs).pull_request
          THEN <<Head(runs)>> ELSE <<>>) \o failed_runs_on(Tail(runs), branch)

\* GithubService::get_workflow_runs: status("failed").branch("master")
\* .exclude_pull_requests(true), send().await.unwrap().items
get_workflow_runs(w, gs, workflow_id) ==
    LET h == Host(w, gs)
    IN  IF h.runs = None
        THEN [panic |-> TRUE, items |-> <<>>]
        ELSE [panic |-> FALSE,
              items |-> IF workflow_id \in DOMAIN Unwrap(h.runs)
                        THEN failed_runs_on(Unwrap(h.runs)[workflow_id], "master")
                        ELSE <<>>]

----------------------------------------------------------------------------
(* doc/mod.rs                                                              *)

\* DocService::new
DocService_new(crate_name, crate_documentation) ==
    IF Contains(crate_documentation, GITHUB_COM)
    THEN [crate_name |-> crate_name, doc_source |-> "GithubReadMe",
          doc_url |-> crate_documentation]
    ELSE [crate_name |-> crate_name, doc_source |-> "RustDoc",
          doc_url |-> RUST_DOC_URL \o <<"/">> \o crate_name]

\* what docs.rs answers for a URL: get is Some(status is a success) unless the
\* request fails, page is Some(document) unless the body cannot be read
NoDocHost == [get |-> None, page |-> None]

DocHost(w, doc) == IF doc.doc_url \in DOMAIN w.docs THEN w.docs[doc.doc_url] ELSE NoDocHost

\* DocService::get_doc_page: reqwest::blocking::get(url).unwrap(), Document::from_read(..).unwrap()
get_doc_page(w, doc) ==
    LET d == DocHost(w, doc)
    IN  IF d.get = None \/ d.page = None THEN [panic |-> TRUE, document |-> None]
        ELSE [panic |-> FALSE, document |-> d.page]

\* DocService::has_successful_build: no element of class "warning"
has_successful_build(w, doc) ==
    LET document == get_doc_page(w, doc)
    IN  IF document.panic THEN [value |-> FALSE, panic |-> TRUE]
        ELSE [value |-> Unwrap(document.document).warnings = 0, panic |-> FALSE]

\* char::is_whitespace, the Unicode White_Space property: U+0009 to U+000D,
\* U+0020, U+0085, U+00A0, U+1680, U+2000 to U+200A, U+2028, U+2029, U+202F,
\* U+205F and U+3000
IsSpace(c) ==
    c \in {"\t", "\n", "", "\f", "\r", " ", "U+0085", "U+00A0", "U+1680",
           "U+2000", "U+2001", "U+2002", "U+2003", "U+2004", "U+2005", "U+2006",
           "U+2007", "U+2008", "U+2009", "U+200A", "U+2028", "U+2029", "U+202F",
           "U+205F", "U+3000"}

\* str::trim
RECURSIVE Trim(_)
Trim(s) ==
    IF s = <<>> THEN s
    ELSE IF IsSpace(s[1]) THEN Trim(Tail(s))
    ELSE IF IsSpace(s[Len(s)]) THEN Trim(SubSeq(s, 1, Len(s) - 1))
    ELSE s

\* str::replace(p, "") for a one-character p
RECURSIVE Remove(_, _)
Remove(s, c) ==
    IF s = <<>> THEN <<>>
    ELSE (IF Head(s) = c THEN <<>> ELSE <<Head(s)>>) \o Remove(Tail(s), c)

\* the pieces of DocService::clean_doc_coverage_text that pass its filter, trimmed and joined
RECURSIVE clean_pieces(_)
clean_pieces(pieces) ==
    IF pieces = <<>> THEN <<>>
    ELSE LET n == Head(pieces)
         IN  (IF n # <<>> /\ n # <<"\n">> /\ Contains(n, <<"%">>) THEN Trim(n) ELSE <<>>)
             \o clean_pieces(Tail(pieces))

\* DocService::clean_doc_coverage_text
clean_doc_coverage_text(text) ==
    Remove(clean_pieces(Split(text, <<" ", " ", " ", " ", " ", " ">>)), "%")

\* the explanation string built by get_rust_doc_coverage_score from the menu links
RECURSIVE coverage_text(_)
coverage_text(links) ==
    IF links = <<>> THEN <<>>
    ELSE (IF Contains(Head(links), <<"%">>) THEN clean_doc_coverage_text(Head(links)) ELSE <<>>)
         \o coverage_text(Tail(links))

\* DocService::get_rust_doc_coverage_score
coverage_score_result(parsed) == [ok |-> parsed.ok, value |-> parsed.value, panic |-> FALSE]

coverage_score_of(document) ==
    IF document.panic THEN [ok |-> FALSE, value |-> 0, panic |-> TRUE]
    ELSE coverage_score_result(ParseU64(coverage_text(Unwrap(document.document).links)))

get_rust_doc_coverage_score(w, doc) == coverage_score_of(get_doc_page(w, doc))

\* DocService::check_doc_page_exists
\* repo_metric.files.get("readme").is_some(), after get_repo_metrics().unwrap()
readme_is_some(repo_metric) ==
    IF ~repo_metric.ok THEN [value |-> FALSE, panic |-> TRUE]
    ELSE [value |-> "readme" \in DOMAIN repo_metric.files, panic |-> FALSE]

\* the GithubReadMe arm of check_doc_page_exists
readme_exists(w, github_service) ==
    IF github_service.panic THEN [value |-> FALSE, panic |-> TRUE]
    ELSE readme_is_some(get_repo_metrics(w, github_service))

\* the RustDoc arm of check_doc_page_exists: http_client.get(url).unwrap().status().is_success()
doc_page_is_success(d) ==
    IF d.get = None THEN [value |-> FALSE, panic |-> TRUE]
    ELSE [value |-> Unwrap(d.get), panic |-> FALSE]

check_doc_page_exists(w, doc) ==
    IF doc.doc_source = "GithubReadMe"
    THEN readme_exists(w, GithubService_new(doc.doc_url))
    ELSE doc_page_is_success(DocHost(w, doc))

----------------------------------------------------------------------------
(* check.rs: the evaluators.  Each returns a CheckResult, or panics.       *)

CheckResult(status, explanation) ==
    [question |-> None, panic |-> FALSE, status |-> status, explanation |-> explanation]

Panicked(message) ==
    [question |-> None, panic |-> TRUE, status |-> "", explanation |-> message]

\* CheckResult::from_error_message
from_error_message(message) == CheckResult("Red", message)

\* CrateCheck::no_support_result
no_support_result == CheckResult("Grey", "This is currently not supported")

UnwrapNone == "called Option::unwrap() on a None value"

\* the match of check_production_readiness on the parsed remote version
production_readiness_of(cargo_crate, version) ==
    IF version.panic THEN Panicked("from_version_text: the version text is malformed")
    ELSE IF at_least_one_major_release(version)
    THEN CheckResult("Green", QUESTION_EXPLANATION_SUFFIX \o " at least one major release")
    ELSE IF at_least_one_minor_release(version)
            /\ cargo_crate.downloads >= MAX_DOWNLOAD_FOR_MINOR_VERSION
    THEN CheckResult("Yellow", QUESTION_EXPLANATION_SUFFIX
               \o " at least two minor releases and at least 500 downloads")
    ELSE CheckResult("Red", QUESTION_EXPLANATION_SUFFIX \o " no major or minor release")

\* CrateCheck::check_production_readiness: version.as_ref().unwrap(), remote.as_ref().unwrap()
check_production_readiness(cargo_crate) ==
    IF cargo_crate.version = None THEN Panicked(UnwrapNone)
    ELSE production_readiness_of(cargo_crate,
             from_version_text(Unwrap(Unwrap(cargo_crate.version).remote)))

\* check_documentation, RustDoc arm, the match on the coverage score
documentation_coverage(doc_coverage_score) ==
    IF doc_coverage_score.panic THEN Panicked("the docs.rs page could not be fetched")
    ELSE IF ~doc_coverage_score.ok
    THEN CheckResult("Yellow",
             "The crate is documented on doc.rs but there's no doc coverage information")
    ELSE CheckResult(IF doc_coverage_score.value < 50
                     THEN (IF doc_coverage_score.value < 10 THEN "Red" ELSE "Yellow")
                     ELSE "Green",
                     ToString(doc_coverage_score.value) \o "% of the crate is documented")

\* check_documentation, RustDoc arm, the test of has_successful_build
documentation_build(w, doc, build) ==
    IF build.panic THEN Panicked("the docs.rs page could not be fetched")
    ELSE IF ~build.value
    THEN CheckResult("Red", "The crate has a failing documentation build")
    ELSE documentation_coverage(get_rust_doc_coverage_score(w, doc))

\* check_documentation, the test of check_doc_page_exists and the match on doc_source
documentation_page(w, doc, exists) ==
    IF exists.panic THEN Panicked("the documentation page could not be fetched")
    ELSE IF ~exists.value
    THEN CheckResult("Red", "The crate has no README or doc.rs page")
    ELSE IF doc.doc_source = "GithubReadMe"
    THEN CheckResult("Green", "README exists. Can't guarantee the coverage.")
    ELSE documentation_build(w, doc, has_successful_build(w, doc))

\* check_documentation, from the DocService on
documentation_of(w, doc) == documentation_page(w, doc, check_doc_page_exists(w, doc))

\* a variant in which the source_url is preferred to the documentation URL
maybe_doc_link_source_first(cargo_crate) ==
    IF cargo_crate.source_url # None THEN cargo_crate.source_url
    ELSE cargo_crate.documentation

\* check_documentation: documentation.as_deref().unwrap_or_else(|| source_url.as_deref()...),
\* before the unwrap of the source_url
maybe_doc_link(cargo_crate) ==
    IF cargo_crate.documentation # None THEN cargo_crate.documentation
    ELSE cargo_crate.source_url

\* check_documentation, up to DocService::new(cargo_crate.name.as_str(), maybe_doc_link)
documentation_service(cargo_crate) ==
    IF maybe_doc_link(cargo_crate) = None THEN [panic |-> TRUE, doc |-> None]
    ELSE [panic |-> FALSE,
          doc |-> Some(DocService_new(cargo_crate.name, Unwrap(maybe_doc_link(cargo_crate))))]

\* CrateCheck::check_documentation: documentation, or else source_url.as_deref().unwrap()
check_documentation(w, cargo_crate) ==
    IF documentation_service(cargo_crate).panic
    THEN Panicked(UnwrapNone)
    ELSE documentation_of(w, Unwrap(documentation_service(cargo_crate).doc))

\* a variant in which the release changelog takes precedence over CHANGELOG.md
changelog_match_release_first(release_changelog, changelog_note) ==
    IF changelog_note.panic THEN Panicked("CHANGELOG.md could not be fetched")
    ELSE IF release_changelog.ok
    THEN CheckResult("Green", "The crate has a release changelog")
    ELSE IF changelog_note.value
    THEN CheckResult("Green", "The crate release has a CHANGELOG.md note")
    ELSE CheckResult("Red", "The crate has no release changelog or CHANGELOG.md")

\* check_changelog, the match on changelog_note_exists and release_changelog_exists
changelog_match(release_changelog, changelog_note) ==
    IF changelog_note.panic THEN Panicked("CHANGELOG.md could not be fetched")
    ELSE IF changelog_note.value
    THEN CheckResult("Green", "The crate release has a CHANGELOG.md note")
    ELSE IF release_changelog.ok
    THEN CheckResult("Green", "The crate has a release changelog")
    ELSE CheckResult("Red", "The crate has no release changelog or CHANGELOG.md")

\* check_changelog, from the GithubService on
changelog_of(w, github_service) ==
    IF github_service.panic THEN Panicked(UnwrapNone)
    ELSE changelog_match(release_changelog_exists(w, github_service),
                         changelog_note_exists(w, github_service))

\* CrateCheck::check_changelog: source_url.as_deref().unwrap()
check_changelog(w, cargo_crate) ==
    IF cargo_crate.source_url = None THEN Panicked(UnwrapNone)
    ELSE changelog_of(w, GithubService_new(Unwrap(cargo_crate.source_url)))

\* check_tests, the match on test_files.is_empty()
tests_match(test_files) ==
    IF test_files.panic THEN Panicked("the repository content could not be fetched")
    ELSE IF test_files.items = <<>>
    THEN CheckResult("Red", "No test files found")
    ELSE CheckResult("Green", "Test files found. Can't guarantee coverage")

\* check_tests, from the GithubService on
tests_of(w, github_service) ==
    IF github_service.panic THEN Panicked(UnwrapNone)
    ELSE tests_match(get_test_files(w, github_service))

\* CrateCheck::check_tests
check_tests(w, cargo_crate) ==
    IF cargo_crate.source_url = None THEN Panicked(UnwrapNone)
    ELSE tests_of(w, GithubService_new(Unwrap(cargo_crate.source_url)))

\* Iterator::filter(|bug| bug.comments > 1).collect()
RECURSIVE with_comments(_)
with_comments(bugs) ==
    IF bugs = <<>> THEN <<>>
    ELSE (IF Head(bugs).comments > 1 THEN <<Head(bugs)>> ELSE <<>>) \o with_comments(Tail(bugs))

\* check_bug_response, the match on open_bugs_with_comments.is_empty()
bug_response_comments(open_bugs_with_comments) ==
    IF open_bugs_with_comments = <<>>
    THEN CheckResult("Red", "There are " \o ToString(Len(open_bugs_with_comments))
               \o " open bugs with no response from the maintainer(s)")
    ELSE CheckResult("Green", "The maintainer(s) have responded to all open bugs")

\* check_bug_response, the match on open_bugs.len() == 0
bug_response_match(open_bugs) ==
    IF open_bugs.panic THEN Panicked("the issues could not be fetched")
    ELSE IF Len(open_bugs.items) = 0
    THEN CheckResult("Green", "There are no open bugs")
    ELSE bug_response_comments(with_comments(open_bugs.items))

\* check_bug_response, from the GithubService on
bug_response_of(w, github_service) ==
    IF github_service.panic THEN Panicked(UnwrapNone)
    ELSE bug_response_match(get_bugs(w, github_service))

\* CrateCheck::check_bug_response
check_bug_response(w, cargo_crate) ==
    IF cargo_crate.source_url = None THEN Panicked(UnwrapNone)
    ELSE bug_response_of(w, GithubService_new(Unwrap(cargo_crate.source_url)))

\* a variant that appends the caveat whatever the status
latest_language_always(tests) ==
    IF ~tests.panic
    THEN [tests EXCEPT !.explanation = tests.explanation \o " or if they run with latest version"]
    ELSE tests

\* check_runs_against_latest_language, given check_tests' result
latest_language_of(tests) ==
    IF ~tests.panic /\ tests.status = "Green"
    THEN [tests EXCEPT !.explanation = tests.explanation \o " or if they run with latest version"]
    ELSE tests

\* CrateCheck::check_runs_against_latest_language
check_runs_against_latest_language(w, cargo_crate) ==
    latest_language_of(check_tests(w, cargo_crate))

\* check_continuous_integration, the match on count > 0
continuous_integration_match(workflows) ==
    IF workflows.panic THEN Panicked("the workflows could not be fetched")
    ELSE IF Len(workflows.items) > 0
    THEN CheckResult("Green", "The crate has " \o ToString(Len(workflows.items))
                                 \o " Github workflow(s)")
    ELSE CheckResult("Red", "The crate has no Github workflow")

\* check_continuous_integration, from the GithubService on
continuous_integration_of(w, github_service) ==
    IF github_service.panic THEN Panicked(UnwrapNone)
    ELSE continuous_integration_match(get_workflows(w, github_service))

\* CrateCheck::check_continuous_integration
check_continuous_integration(w, cargo_crate) ==
    IF cargo_crate.source_url = None THEN Panicked(UnwrapNone)
    ELSE continuous_integration_of(w, GithubService_new(Unwrap(cargo_crate.source_url)))

\* the keys of the HashMap of get_failing_workflows
workflow_ids(workflows) == {workflows[k].id : k \in 1..Len(workflows)}

\* CrateCheck::get_failing_workflows: a HashMap from workflow id to its number of
\* failed runs, then the number of entries with a value > 0.  panic: a run fetch failed.
get_failing_workflows(w, github_service, workflows) ==
    IF \E id \in workflow_ids(workflows) : get_workflow_runs(w, github_service, id).panic
    THEN [panic |-> TRUE, count |-> 0]
    ELSE [panic |-> FALSE,
          count |-> Cardinality({id \in workflow_ids(workflows) :
                        Len(get_workflow_runs(w, github_service, id).items) > 0})]

\* a variant in which a failing workflow fails the criterion
ci_status_failing_is_red(failing_workflows_count) ==
    IF failing_workflows_count.panic THEN Panicked("the workflow runs could not be fetched")
    ELSE IF failing_workflows_count.count > 0
    THEN CheckResult("Red", ToString(failing_workflows_count.count)
                               \o " of the workflows failed")
    ELSE CheckResult("Green", "No failing workflow found")

\* check_ci_status, the match on failing_workflows_count > 0
ci_status_failing(failing_workflows_count) ==
    IF failing_workflows_count.panic THEN Panicked("the workflow runs could not be fetched")
    ELSE IF failing_workflows_count.count > 0
    THEN CheckResult("Green", ToString(failing_workflows_count.count)
                                 \o " of the workflows failed")
    ELSE CheckResult("Green", "No failing workflow found")

\* check_ci_status, the match on count > 0
ci_status_match(w, github_service, workflows) ==
    IF workflows.panic THEN Panicked("the workflows could not be fetched")
    ELSE IF Len(workflows.items) > 0
    THEN ci_status_failing(get_failing_workflows(w, github_service, workflows.items))
    ELSE CheckResult("Red", "The crate has no Github workflow")

\* check_ci_status, from the GithubService on
ci_status_of(w, github_service) ==
    IF github_service.panic THEN Panicked(UnwrapNone)
    ELSE ci_status_match(w, github_service, get_workflows(w, github_service))

\* CrateCheck::check_ci_status
check_ci_status(w, cargo_crate) ==
    IF cargo_crate.source_url = None THEN Panicked(UnwrapNone)
    ELSE ci_status_of(w, GithubService_new(Unwrap(cargo_crate.source_url)))

\* check_usage, commits.iter().peekable().peek().is_some(): commits is a Result, and
\* Result::iter() yields its Ok value, so this is Some exactly when the fetch succeeded
usage_match(commits) ==
    IF commits.ok
    THEN CheckResult("Green", "There have been commits this year")
    ELSE CheckResult("Red", "There have been no commits this year")

\* check_usage, from the GithubService on
usage_of(w, github_service) ==
    IF github_service.panic THEN Panicked(UnwrapNone)
    ELSE usage_match(get_latest_commits(w, github_service))

\* CrateCheck::check_usage
check_usage(w, cargo_crate) ==
    IF cargo_crate.source_url = None THEN Panicked(UnwrapNone)
    ELSE usage_of(w, GithubService_new(Unwrap(cargo_crate.source_url)))

\* check_latest_commits: get_latest_commits().unwrap(), last_commit.first().unwrap()
latest_commits_match(last_commit) ==
    IF ~last_commit.ok THEN Panicked("the commits could not be fetched")
    ELSE IF last_commit.commits = <<>> THEN Panicked(UnwrapNone)
    ELSE CheckResult(IF last_commit.commits[1].days_ago < 365 THEN "Red" ELSE "Green",
             "The last commit was " \o ToString(last_commit.commits[1].days_ago)
                 \o " day(s) ago")

\* check_latest_commits, from the GithubService on
latest_commits_of(w, github_service) ==
    IF github_service.panic THEN Panicked(UnwrapNone)
    ELSE latest_commits_match(get_latest_commits(w, github_service))

\* CrateCheck::check_latest_commits
check_latest_commits(w, cargo_crate) ==
    IF cargo_crate.source_url = None THEN Panicked(UnwrapNone)
    ELSE latest_commits_of(w, GithubService_new(Unwrap(cargo_crate.source_url)))

\* a variant that takes a release of exactly a year for an old one
latest_release_age_from_a_year(created_at) ==
    IF created_at = None THEN Panicked(UnwrapNone)
    ELSE IF Unwrap(created_at).days_ago >= 365
    THEN CheckResult("Yellow", "The last release was over a year ago")
    ELSE CheckResult("Green", "The last release was " \o ToString(Unwrap(created_at).days_ago)
                                 \o " day(s) ago")

\* check_latest_release, the Ok arm: release.created_at.unwrap()
latest_release_age(created_at) ==
    IF created_at = None THEN Panicked(UnwrapNone)
    ELSE IF Unwrap(created_at).days_ago > 365
    THEN CheckResult("Yellow", "The last release was over a year ago")
    ELSE CheckResult("Green", "The last release was " \o ToString(Unwrap(created_at).days_ago)
                                 \o " day(s) ago")

\* check_latest_release, the match on latest_release
latest_release_match(latest_release) ==
    IF ~latest_release.ok
    THEN CheckResult("Red", "There has no been release.")
    ELSE latest_release_age(Unwrap(latest_release.release).created_at)

\* check_latest_release, from the GithubService on
latest_release_of(w, github_service) ==
    IF github_service.panic THEN Panicked(UnwrapNone)
    ELSE latest_release_match(get_latest_release(w, github_service))

\* CrateCheck::check_latest_release
check_latest_release(w, cargo_crate) ==
    IF cargo_crate.source_url = None THEN Panicked(UnwrapNone)
    ELSE latest_release_of(w, GithubService_new(Unwrap(cargo_crate.source_url)))

----------------------------------------------------------------------------
(* questions.rs: the catalog (assets/questions.json) and its selection     *)

CheckNames == <<"ProductionReadiness", "Documentation", "Changelog", "Tests",
                "BugReportResponse", "TestsRunAgainstLatestLanguageVersion",
                "TestsRunAgainstLatestIntegrationVersion",
                "ContinuousIntegrationConfiguration", "ContinuousIntegrationPasses",
                "Usage", "LatestCommits", "LatestRelease">>

\* Questions::question_numbers: (1..13).map(|x| x.to_string())
question_numbers == <<"1", "2", "3", "4", "5", "6", "7", "8", "9", "10", "11", "12">>

\* the evaluator of each entry of the catalog, entries 1 to 12 in order
CatalogNames == <<"ProductionReadiness", "Documentation", "Changelog", "Tests",
                  "TestsRunAgainstLatestLanguageVersion",
                  "TestsRunAgainstLatestIntegrationVersion", "BugReportResponse",
                  "ContinuousIntegrationConfiguration", "ContinuousIntegrationPasses",
                  "Usage", "LatestCommits", "LatestRelease">>

\* Questions::list: the twelve entries in file order, entry k numbered k
list == [k \in 1..12 |-> [name |-> CatalogNames[k], number |-> question_numbers[k]]]

RECURSIVE with_number(_, _)
with_number(questions, question_number) ==
    IF questions = <<>> THEN <<>>
    ELSE (IF Head(questions).number = question_number THEN <<Head(questions)>> ELSE <<>>)
         \o with_number(Tail(questions), question_number)

\* Questions::describe
describe(question_number) == with_number(list, question_number)

----------------------------------------------------------------------------
(* check.rs: CrateCheck                                                    *)

\* the match of CrateCheck::check_question
evaluate(w, cargo_crate, name) ==
    CASE name = "ProductionReadiness" -> check_production_readiness(cargo_crate)
      [] name = "Documentation" -> check_documentation(w, cargo_crate)
      [] name = "Changelog" -> check_changelog(w, cargo_crate)
      [] name = "Tests" -> check_tests(w, cargo_crate)
      [] name = "BugReportResponse" -> check_bug_response(w, cargo_crate)
      [] name = "TestsRunAgainstLatestLanguageVersion" ->
            check_runs_against_latest_language(w, cargo_crate)
      [] name = "TestsRunAgainstLatestIntegrationVersion" -> no_support_result
      [] name = "ContinuousIntegrationConfiguration" ->
            check_continuous_integration(w, cargo_crate)
      [] name = "ContinuousIntegrationPasses" -> check_ci_status(w, cargo_crate)
      [] name = "Usage" -> check_usage(w, cargo_crate)
      [] name = "LatestCommits" -> check_latest_commits(w, cargo_crate)
      [] name = "LatestRelease" -> check_latest_release(w, cargo_crate)

\* a variant that leaves the question of the evaluator's result as it is
check_results_unnumbered(check_result, q) ==
    IF check_result.panic
    THEN [panic |-> TRUE, message |-> check_result.explanation, check_results |-> <<>>]
    ELSE [panic |-> FALSE, message |-> "",
          check_results |-> <<[question |-> check_result.question,
                               status |-> check_result.status,
                               explanation |-> check_result.explanation]>>]

\* CrateCheck::check_question: the evaluator's result with the question number
\* attached, as a one-element Vec
check_results_of(check_result, q) ==
    IF check_result.panic
    THEN [panic |-> TRUE, message |-> check_result.explanation, check_results |-> <<>>]
    ELSE [panic |-> FALSE, message |-> "",
          check_results |-> <<[question |-> Some(q.number),
                               status |-> check_result.status,
                               explanation |-> check_result.explanation]>>]

check_question(w, cargo_crate, q) == check_results_of(evaluate(w, cargo_crate, q.name), q)

\* one request sent to a service: to the registry, the source host or docs.rs,
\* or the read of a manifest file
request(to, what) == [to |-> to, what |-> what]

\* Crate::from_manifest: the read of the manifest, then one get_crate per entry
\* up to the first lookup that fails
from_manifest_requests(w, manifest_file) ==
    <<request("file", "manifest")>>
    \o (IF manifest_file \notin DOMAIN w.manifests THEN <<>>
        ELSE [k \in 1..Cardinality({n \in 1..Len(w.manifests[manifest_file]) :
                        \A m \in 1..(n - 1) :
                            w.manifests[manifest_file][m].name \in DOMAIN w.registry})
                |-> request("registry", "crate")])

\* check_documentation, RustDoc arm: check_doc_page_exists gets the page, then
\* has_successful_build and get_rust_doc_coverage_score each get it again
rustdoc_requests(d) ==
    <<request("docs", "get")>>
    \o (IF d.get = None \/ ~Unwrap(d.get) THEN <<>>
        ELSE <<request("docs", "page")>>
             \o (IF d.page = None \/ Unwrap(d.page).warnings # 0 THEN <<>>
                 ELSE <<request("docs", "page")>>))

\* check_documentation: check_doc_page_exists asks for the community profile
\* of a README on the source host
documentation_requests(w, doc) ==
    IF doc.doc_source = "GithubReadMe"
    THEN (IF GithubService_new(doc.doc_url).panic THEN <<>>
          ELSE <<request("host", "metrics")>>)
    ELSE rustdoc_requests(DocHost(w, doc))

\* check_changelog: release_changelog_exists, then changelog_note_exists, which
\* gets the repository for its default branch and then the file
changelog_requests(h) ==
    <<request("host", "latest_release"), request("host", "repo")>>
    \o (IF h.repo = None \/ Unwrap(h.repo).default_branch = None THEN <<>>
        ELSE <<request("host", "blob")>>)

\* check_ci_status: get_workflows, then get_failing_workflows asks for the
\* runs of each workflow in turn, up to the first fetch that fails
ci_status_requests(h) ==
    <<request("host", "workflows")>>
    \o (IF h.workflows = None THEN <<>>
        ELSE [k \in 1..(IF h.runs = None /\ Unwrap(h.workflows) # <<>> THEN 1
                         ELSE Len(Unwrap(h.workflows)))
                |-> request("host", "runs")])

\* the requests the evaluator of a criterion sends to a repository, in order
host_requests(h, name) ==
    CASE name = "Changelog" -> changelog_requests(h)
      [] name \in {"Tests", "TestsRunAgainstLatestLanguageVersion"} ->
            <<request("host", "content")>>
      [] name = "BugReportResponse" -> <<request("host", "bugs")>>
      [] name = "ContinuousIntegrationConfiguration" -> <<request("host", "workflows")>>
      [] name = "ContinuousIntegrationPasses" -> ci_status_requests(h)
      [] name \in {"Usage", "LatestCommits"} -> <<request("host", "commits")>>
      [] name = "LatestRelease" -> <<request("host", "latest_release")>>
      [] OTHER -> <<>>

\* the requests check_question sends for a crate and a criterion, in order: each
\* evaluator builds its own GithubService or DocService and fetches anew
requests(w, cargo_crate, name) ==
    IF name = "Documentation"
    THEN (IF cargo_crate.documentation = None /\ cargo_crate.source_url = None THEN <<>>
          ELSE documentation_requests(w, DocService_new(cargo_crate.name,
                   IF cargo_crate.documentation # None
                   THEN Unwrap(cargo_crate.documentation)
                   ELSE Unwrap(cargo_crate.source_url))))
    ELSE IF cargo_crate.source_url = None
            \/ name \in {"ProductionReadiness", "TestsRunAgainstLatestIntegrationVersion"}
    THEN <<>>
    ELSE IF GithubService_new(Unwrap(cargo_crate.source_url)).panic THEN <<>>
    ELSE host_requests(Host(w, GithubService_new(Unwrap(cargo_crate.source_url))), name)

\* a variant that checks every crate
has_source_url_always(cargo_crate) == TRUE

\* run_checks: cargo_crate.source_url.is_some()
has_source_url(cargo_crate) == IsSome(cargo_crate.source_url)

\* run_checks: question.unwrap_or("0"), then "0" selects the whole list
selected_question(q) ==
    LET number == IF q = None THEN "0" ELSE Unwrap(q)
    IN  IF number = "0" THEN list ELSE describe(number)

----------------------------------------------------------------------------
(* The inputs of a run: raw identifiers, registry, manifests, repositories *)

S_serde == <<"s", "e", "r", "d", "e">>
S_nosrc == <<"n", "o", "s", "r", "c">>
S_ghost == <<"g", "h", "o", "s", "t">>
HTTPS == <<"h", "t", "t", "p", "s", ":", "/", "/">>
DOT_TOML == <<".", "t", "o", "m", "l">>
URL_serde == HTTPS \o GITHUB_COM \o <<"/", "o", "/">> \o S_serde
URL_r == HTTPS \o GITHUB_COM \o <<"/", "o", "/", "r">>
DOC_serde == RUST_DOC_URL \o <<"/">> \o S_serde
CARGO_TOML == <<"C", "a", "r", "g", "o">> \o DOT_TOML
BAD_TOML == <<"b", "a", "d">> \o DOT_TOML
V_1_0_130 == <<"1", ".", "0", ".", "1", "3", "0">>
V_0_3_0 == <<"0", ".", "3", ".", "0">>
V_1_0 == <<"1", ".", "0">>

\* crates.io: serde has a repository and a docs.rs page, nosrc has neither,
\* ghost is not a crate
Registry0 ==
    (S_serde :> [description |-> Some("serde"), documentation |-> Some(DOC_serde),
                 homepage |-> None, created_at |-> 2015,
                 updated_at |-> 2021, downloads |-> 50000000, repository |-> Some(URL_serde),
                 max_version |-> V_1_0_130])
    @@ (S_nosrc :> [description |-> None, documentation |-> None,
                    homepage |-> None, created_at |-> 2020,
                    updated_at |-> 2020, downloads |-> 499, repository |-> None,
                    max_version |-> V_0_3_0])

\* Cargo.toml: [dependencies] nosrc = { path = ".." } and serde = "1.0"; bad.toml is unreadable
Manifests0 ==
    CARGO_TOML :> <<[name |-> S_nosrc, dependency |-> [version |-> None, kind |-> "Detailed"]],
                    [name |-> S_serde, dependency |-> [version |-> Some(V_1_0), kind |-> "Simple"]]>>

RawIdentifiers == {S_serde, S_nosrc, S_ghost, URL_r, CARGO_TOML, BAD_TOML}

RepoKeys == {<<<<"o">>, S_serde>>, <<<<"o">>, <<"r">>>>}

\* a repository in good shape
HostOK ==
    [repo |-> Some([default_branch |-> Some("master")]),
     blob |-> Some({<<"master", "CHANGELOG.md">>, <<"master", "README.md">>}),
     latest_release |-> [body |-> Some("notes"), created_at |-> Some([days_ago |-> 10]),
                         fetch |-> "ok"],
     content |-> Some(<<[path |-> <<"t", "e", "s", "t", "s">>, type |-> "dir"],
                        [path |-> <<"R", "E", "A", "D", "M", "E">>, type |-> "file"]>>),
     bugs |-> Some(<<>>),
     workflows |-> Some(<<[id |-> 1]>>),
     runs |-> Some(1 :> <<>>),
     commits |-> Some(<<[days_ago |-> 1]>>),
     metrics |-> Some([files |-> ("readme" :> Some("README.md"))])]

\* one request kind failing, or one normal answer that is not HostOK's
HostScenarios ==
    {HostOK,
     [HostOK EXCEPT !.repo = None],
     [HostOK EXCEPT !.blob = None],
     [HostOK EXCEPT !.latest_release = [fetch |-> "err"]],
     [HostOK EXCEPT !.latest_release = [fetch |-> "none"]],
     [HostOK EXCEPT !.content = None],
     [HostOK EXCEPT !.bugs = None],
     [HostOK EXCEPT !.workflows = None],
     [HostOK EXCEPT !.runs = None],
     [HostOK EXCEPT !.commits = None],
     [HostOK EXCEPT !.commits = Some(<<>>)],
     [HostOK EXCEPT !.metrics = None]}

\* docs.rs: a page that built, 75% documented
DocOK == [get |-> Some(TRUE),
          page |-> Some([warnings |-> 0, links |-> << <<"7", "5", "%">> >>])]

DocScenarios == {DocOK, NoDocHost}

\* the worlds of a run: at most one repository deviates from HostOK
Worlds ==
    {[registry |-> Registry0, manifests |-> Manifests0,
      host |-> [k \in RepoKeys |-> IF k = bad THEN h ELSE HostOK],
      docs |-> (DOC_serde :> d)] :
        bad \in RepoKeys, h \in HostScenarios, d \in DocScenarios}

MaxDeps == 2

RECURSIVE SeqsUpTo(_, _)
SeqsUpTo(S, n) ==
    IF n = 0 THEN {<<>>}
    ELSE LET shorter == SeqsUpTo(S, n - 1)
         IN  shorter \cup {Append(q, x) : q \in {r \in shorter : Len(r) = n - 1}, x \in S}

\* the --question option: absent, or one of the twelve numbers
QuestionOptions == {None} \cup {Some(question_numbers[k]) : k \in 1..12}

NoProbe == [crate |-> NoCrate, check |-> "", out |-> Panicked("")]

----------------------------------------------------------------------------
(* A run: CrateCheck::new(deps), then run_checks(question)                 *)

Init ==
    /\ deps \in SeqsUpTo(RawIdentifiers, MaxDeps)
    /\ question \in QuestionOptions
    /\ world \in Worlds
    /\ pc = "new"
    /\ di = 1
    /\ crates = <<>>
    /\ ci = 1
    /\ qi = 1
    /\ results = <<>>
    /\ notices = <<>>
    /\ panic_message = ""
    /\ log = <<>>
    /\ probe = NoProbe

\* an entry of the log: what was started, the requests it sent, in which stage,
\* and for which raw identifier (resolve) or crate (check)
Entry(kind, sent, stage, at) == [kind |-> kind, requests |-> sent, stage |-> stage, at |-> at]

\* a panic unwinds: the locals are dropped and the process exits with the panic_message
Panic(msg) ==
    /\ pc' = "panicked"
    /\ panic_message' = msg
    /\ crates' = <<>>
    /\ results' = <<>>
    /\ UNCHANGED <<deps, question, world, di, ci, qi, notices, probe>>

\* crates_to_check.extend(dependencies_from_manifest), unless from_manifest panicked
Extend(dependencies_from_manifest) ==
    IF dependencies_from_manifest.panic
    THEN Panic(dependencies_from_manifest.message)
    ELSE /\ crates' = crates \o dependencies_from_manifest.crates
         /\ di' = di + 1
         /\ UNCHANGED <<deps, question, world, pc, ci, qi, results, notices,
                        panic_message, probe>>

\* crates_to_check.push(dependency), unless from_name panicked
Push(dependency) ==
    IF dependency.panic
    THEN Panic(dependency.message)
    ELSE /\ crates' = Append(crates, dependency.crate)
         /\ di' = di + 1
         /\ UNCHANGED <<deps, question, world, pc, ci, qi, results, notices,
                        panic_message, probe>>

\* results.push(question_results), unless check_question panicked
PushResults(question_results) ==
    IF question_results.panic
    THEN Panic(question_results.message)
    ELSE /\ results' = Append(results, question_results.check_results)
         /\ qi' = qi + 1
         /\ UNCHANGED <<deps, question, world, pc, di, crates, ci, notices,
                        panic_message, probe>>

\* CrateCheck::new, loop body, dep.ends_with(".toml")
ResolveManifest ==
    /\ pc = "new" /\ di <= Len(deps)
    /\ EndsWith(deps[di], DOT_TOML)
    /\ log' = Append(log, Entry("manifest", from_manifest_requests(world, deps[di]),
                                "resolve", di))
    /\ Extend(from_manifest(world, deps[di]))

\* CrateCheck::new, loop body, dep.starts_with("https://")
ResolveSource ==
    /\ pc = "new" /\ di <= Len(deps)
    /\ ~EndsWith(deps[di], DOT_TOML)
    /\ StartsWith(deps[di], HTTPS)
    /\ log' = Append(log, Entry("source", <<>>, "resolve", di))
    /\ crates' = Append(crates, from_source(deps[di]))
    /\ di' = di + 1
    /\ UNCHANGED <<deps, question, world, pc, ci, qi, results, notices, panic_message, probe>>

\* CrateCheck::new, loop body, otherwise: a crate name
ResolveName ==
    /\ pc = "new" /\ di <= Len(deps)
    /\ ~EndsWith(deps[di], DOT_TOML)
    /\ ~StartsWith(deps[di], HTTPS)
    /\ log' = Append(log, Entry("registry", <<request("registry", "crate")>>,
                                "resolve", di))
    /\ Push(from_name(world, deps[di], Some(MISSING_FIELD_PLACEHOLDER)))

\* a variant in which run_checks is called once a crate is resolved
NewReturnsEarly ==
    /\ pc = "new" /\ crates # <<>>
    /\ pc' = "run_checks"
    /\ UNCHANGED <<deps, question, world, di, crates, ci, qi, results, notices,
                   panic_message, log, probe>>

\* CrateCheck::new returns the CrateCheck; main.rs calls run_checks on it
NewReturns ==
    /\ pc = "new" /\ di > Len(deps)
    /\ pc' = "run_checks"
    /\ UNCHANGED <<deps, question, world, di, crates, ci, qi, results, notices,
                   panic_message, log, probe>>

\* run_checks, inner loop body: one question checked for a crate with a source_url
CheckQuestion ==
    /\ pc = "run_checks" /\ ci <= Len(crates)
    /\ has_source_url(crates[ci])
    /\ qi <= Len(selected_question(question))
    /\ log' = Append(log, Entry(selected_question(question)[qi].name,
                                requests(world, crates[ci],
                                         selected_question(question)[qi].name),
                                "check", ci))
    /\ PushResults(check_question(world, crates[ci], selected_question(question)[qi]))

\* run_checks, the inner loop is exhausted: on to the next crate
NextCrate ==
    /\ pc = "run_checks" /\ ci <= Len(crates)
    /\ has_source_url(crates[ci])
    /\ qi > Len(selected_question(question))
    /\ ci' = ci + 1
    /\ qi' = 1
    /\ UNCHANGED <<deps, question, world, pc, di, crates, results, notices, panic_message,
                   log, probe>>

\* run_checks, a crate without source_url: eprintln!("... Will ignore.")
IgnoreCrate ==
    /\ pc = "run_checks" /\ ci <= Len(crates)
    /\ ~has_source_url(crates[ci])
    /\ notices' = Append(notices, crates[ci].name)
    /\ ci' = ci + 1
    /\ UNCHANGED <<deps, question, world, pc, di, crates, qi, results, panic_message, log, probe>>

\* run_checks returns results
RunChecksReturns ==
    /\ pc = "run_checks" /\ ci > Len(crates)
    /\ pc' = "done"
    /\ UNCHANGED <<deps, question, world, di, crates, ci, qi, results, notices,
                   panic_message, log, probe>>

Next ==
    \/ ResolveManifest
    \/ ResolveSource
    \/ ResolveName
    \/ NewReturns
    \/ CheckQuestion
    \/ NextCrate
    \/ IgnoreCrate
    \/ RunChecksReturns

Spec == Init /\ [][Next]_vars

----------------------------------------------------------------------------
(* One evaluator called on one crate, against fixed answers of the services *)

DOC_r == RUST_DOC_URL \o <<"/", "r">>

\* the text major.minor.patch
VersionText(major, minor, patch) ==
    NatText(major) \o <<".">> \o NatText(minor) \o <<".">> \o NatText(patch)

EvalMajors == {0, 1, 2}

EvalMinors == {0, 1, 3}

EvalPatches == {0, 5, 130}

EvalDownloads == {0, 499, 500, 501}

\* a crate of the registry named r
EvalCrate(version, downloads, source_url, documentation) ==
    [NoCrate EXCEPT !.name = <<"r">>,
                    !.source_url = source_url,
                    !.documentation = documentation,
                    !.version = Some([remote |-> Some(version),
                                      local |-> Some(MISSING_FIELD_PLACEHOLDER)]),
                    !.downloads = downloads]

\* the crates an evaluator is called on: run_checks calls check_question only
\* for a crate with a source_url
EvalCrates ==
    {EvalCrate(VersionText(major, minor, patch), downloads, Some(URL_r), None) :
        major \in EvalMajors, minor \in EvalMinors, patch \in EvalPatches,
        downloads \in EvalDownloads}
    \cup {EvalCrate(V_1_0_130, 500, Some(URL_r), documentation) :
            documentation \in {None, Some(DOC_r), Some(URL_r), Some(DOC_serde)}}
    \cup {from_source(URL_r)}

\* the files at the default branch: with and without CHANGELOG.md
EvalBlobs == {{<<"master", "CHANGELOG.md">>}, {}}

\* the latest release: with notes, with empty notes, without notes, none, request failed
EvalReleases ==
    {[body |-> body, created_at |-> Some([days_ago |-> 10]), fetch |-> "ok"] :
        body \in {Some("notes"), Some(""), None}}
    \cup {[fetch |-> "none"], [fetch |-> "err"]}

MaxBugs == 2

EvalComments == {0, 1, 2, 3}

\* the open issues labeled "bug"
EvalBugs == SeqsUpTo({[comments |-> n] : n \in EvalComments}, MaxBugs)

\* the community profile's files map: a README, "readme": null, no "readme" key
EvalFiles == {"readme" :> Some("README.md"), "readme" :> None, "license" :> None}

\* ages in days, around the year
EvalDays == {0, 364, 365, 366, 400}

\* the answer to commits?...&per_page=1: the most recent commit
EvalCommits == {<<[days_ago |-> d]>> : d \in EvalDays}

\* the latest release, by age
EvalReleaseAges ==
    {[body |-> Some("notes"), created_at |-> Some([days_ago |-> d]), fetch |-> "ok"] :
        d \in EvalDays}

\* the entries of the root listing: directories and files, with and without "test"
EvalEntries ==
    {[path |-> <<"t", "e", "s", "t", "s">>, type |-> "dir"],
     [path |-> <<"m", "y", "_", "t", "e", "s", "t">>, type |-> "dir"],
     [path |-> <<"t", "e", "s", "t", ".", "r", "s">>, type |-> "file"],
     [path |-> <<"s", "r", "c">>, type |-> "dir"]}

MaxEntries == 2

EvalContents == SeqsUpTo(EvalEntries, MaxEntries)

\* the workflows of a repository
EvalWorkflows == {<<>>, <<[id |-> 1]>>, <<[id |-> 1], [id |-> 2]>>}

\* the runs of one workflow
EvalRuns ==
    {<<>>,
     <<[branch |-> "master", status |-> "failed", pull_request |-> FALSE]>>,
     <<[branch |-> "master", status |-> "failed", pull_request |-> FALSE],
       [branch |-> "master", status |-> "failed", pull_request |-> FALSE]>>,
     <<[branch |-> "master", status |-> "failed", pull_request |-> TRUE]>>,
     <<[branch |-> "master", status |-> "success", pull_request |-> FALSE]>>}

\* the runs of the workflow of a repository whose default branch is main
EvalMainRuns ==
    {<<>>,
     <<[branch |-> "main", status |-> "failed", pull_request |-> FALSE]>>,
     <<[branch |-> "main", status |-> "failed", pull_request |-> TRUE]>>,
     <<[branch |-> "master", status |-> "failed", pull_request |-> FALSE]>>}

\* a repository in good shape whose default branch is main
EvalMainHosts ==
    {[HostOK EXCEPT !.repo = Some([default_branch |-> Some("main")]),
                    !.blob = Some({<<"main", "CHANGELOG.md">>}),
                    !.runs = Some(1 :> runs)] : runs \in EvalMainRuns}

EvalHosts ==
    HostScenarios
    \cup EvalMainHosts
    \cup {[HostOK EXCEPT !.blob = Some(blob), !.latest_release = release] :
            blob \in EvalBlobs, release \in EvalReleases}
    \cup {[HostOK EXCEPT !.bugs = Some(bugs)] : bugs \in EvalBugs}
    \cup {[HostOK EXCEPT !.metrics = Some([files |-> files])] : files \in EvalFiles}
    \cup {[HostOK EXCEPT !.commits = Some(commits)] : commits \in EvalCommits}
    \cup {[HostOK EXCEPT !.latest_release = release] : release \in EvalReleaseAges}
    \cup {[HostOK EXCEPT !.content = Some(content)] : content \in EvalContents}
    \cup {[HostOK EXCEPT !.workflows = Some(workflows),
                         !.runs = Some((1 :> runs1) @@ (2 :> runs2))] :
            workflows \in EvalWorkflows, runs1 \in EvalRuns, runs2 \in EvalRuns}

\* the text of the coverage link of a docs.rs page
EvalLinks ==
    {<< <<"7", "5", "%">> >>, << <<"5", "0", "%">> >>, << <<"4", "9", "%">> >>,
     << <<"3", "0", "%">> >>, << <<"1", "0", "%">> >>, << <<"9", "%">> >>,
     << <<"5", "%">> >>, << <<"0", "%">> >>,
     << <<" ", " ", " ", " ", " ", " ", "7", "5", "%", "\n">> >>,
     << <<"\f", "U+2003", "7", "5", "%", "U+00A0", "U+3000">> >>,
     << <<"U+00E9", "7", "5", "%">> >>,
     << <<"7", "5", ".", "5", "%">> >>, << <<"S", "o", "u", "r", "c", "e">> >>, << >>}

EvalDocs ==
    {[get |-> Some(success), page |-> Some([warnings |-> warnings, links |-> links])] :
        success \in BOOLEAN, warnings \in {0, 1}, links \in EvalLinks}
    \cup {NoDocHost, [get |-> Some(TRUE), page |-> None]}

EvalWorld(h, d) ==
    [registry |-> Registry0, manifests |-> Manifests0,
     host |-> (<<<<"o">>, <<"r">>>> :> h), docs |-> (DOC_r :> d)]

EvalWorlds ==
    {EvalWorld(h, DocOK) : h \in EvalHosts} \cup {EvalWorld(HostOK, d) : d \in EvalDocs}

EvalInit ==
    /\ world \in EvalWorlds
    /\ pc = "eval"
    /\ deps = <<>>
    /\ question = None
    /\ di = 1
    /\ crates = <<>>
    /\ ci = 1
    /\ qi = 1
    /\ results = <<>>
    /\ notices = <<>>
    /\ panic_message = ""
    /\ log = <<>>
    /\ probe = NoProbe

\* the call of one evaluator and what came of it
Call(name, cargo_crate, check_result) ==
    /\ pc = "eval"
    /\ pc' = "evaluated"
    /\ probe' = [crate |-> cargo_crate, check |-> name, out |-> check_result]
    /\ UNCHANGED <<deps, question, world, di, crates, ci, qi, results, notices,
                   panic_message, log>>

CallProductionReadiness ==
    \E c \in EvalCrates : Call("ProductionReadiness", c, check_production_readiness(c))

CallDocumentation ==
    \E c \in EvalCrates : Call("Documentation", c, check_documentation(world, c))

CallChangelog ==
    \E c \in EvalCrates : Call("Changelog", c, check_changelog(world, c))

CallTests ==
    \E c \in EvalCrates : Call("Tests", c, check_tests(world, c))

CallBugResponse ==
    \E c \in EvalCrates : Call("BugReportResponse", c, check_bug_response(world, c))

CallRunsAgainstLatestLanguage ==
    \E c \in EvalCrates : Call("TestsRunAgainstLatestLanguageVersion", c,
                               check_runs_against_latest_language(world, c))

CallNoSupport ==
    \E c \in EvalCrates : Call("TestsRunAgainstLatestIntegrationVersion", c, no_support_result)

CallContinuousIntegration ==
    \E c \in EvalCrates : Call("ContinuousIntegrationConfiguration", c,
                               check_continuous_integration(world, c))

CallCiStatus ==
    \E c \in EvalCrates : Call("ContinuousIntegrationPasses", c, check_ci_status(world, c))

CallUsage ==
    \E c \in EvalCrates : Call("Usage", c, check_usage(world, c))

CallLatestCommits ==
    \E c \in EvalCrates : Call("LatestCommits", c, check_latest_commits(world, c))

CallLatestRelease ==
    \E c \in EvalCrates : Call("LatestRelease", c, check_latest_release(world, c))

\* trailing pre-release text
EvalSuffixes == {<<>>, <<"-", "a", "l", "p", "h", "a">>, <<"-", "r", "c", ".", "1">>}

\* version texts: major.minor.patch with and without trailing text, and texts
\* of fewer than three segments
EvalVersionTexts ==
    {VersionText(major, minor, patch) \o suffix :
        major \in EvalMajors, minor \in EvalMinors, patch \in EvalPatches,
        suffix \in EvalSuffixes}
    \cup {V_1_0, <<"1">>, <<>>, <<"1", ".">>}

\* Version::from_version_text called on a text
CallFromVersionText ==
    \E text \in EvalVersionTexts :
        Call("from_version_text", NoCrate, from_version_text(text))

\* repository URLs: owner and repo, with further and with empty segments, and
\* URLs with one segment, with none, and of another host
EvalUrls ==
    {URL_r,
     URL_r \o <<"/", "t", "r", "e", "e", "/", "m">>,
     HTTPS \o GITHUB_COM \o <<"/", "/", "o", "/", "/", "r", "/">>,
     <<"g", "i", "t", "@">> \o GITHUB_COM \o <<":", "o", "/", "r">>,
     HTTPS \o GITHUB_COM \o <<"/", "o">>,
     HTTPS \o GITHUB_COM \o <<"/", "o", "/">>,
     HTTPS \o GITHUB_COM \o <<"/">>,
     HTTPS \o GITHUB_COM,
     HTTPS \o <<"g", "i", "t", "l", "a", "b", ".", "c", "o", "m", "/", "o", "/", "r">>,
     <<>>}

\* GithubService::new called on a URL
CallGithubServiceNew ==
    \E url \in EvalUrls : Call("GithubService::new", NoCrate, GithubService_new(url))

\* the DocService that check_documentation constructs for a crate
CallDocServiceNew ==
    \E c \in EvalCrates : Call("DocService::new", c, documentation_service(c))

\* check_documentation, up to doc.check_doc_page_exists()
documentation_page_exists(w, service) ==
    IF service.panic THEN [value |-> FALSE, panic |-> TRUE]
    ELSE check_doc_page_exists(w, Unwrap(service.doc))

\* DocService::check_doc_page_exists called on the DocService of a crate
CallCheckDocPageExists ==
    \E c \in EvalCrates :
        Call("check_doc_page_exists", c,
             documentation_page_exists(world, documentation_service(c)))

EvalNext ==
    \/ CallFromVersionText
    \/ CallGithubServiceNew
    \/ CallDocServiceNew
    \/ CallCheckDocPageExists
    \/ CallProductionReadiness
    \/ CallDocumentation
    \/ CallChangelog
    \/ CallTests
    \/ CallBugResponse
    \/ CallRunsAgainstLatestLanguage
    \/ CallNoSupport
    \/ CallContinuousIntegration
    \/ CallCiStatus
    \/ CallUsage
    \/ CallLatestCommits
    \/ CallLatestRelease

EvalSpec == EvalInit /\ [][EvalNext]_vars

----------------------------------------------------------------------------
(* Properties: vocabulary                                                  *)

\* the specification's names for the statuses
Pass == "Green"

Partial == "Yellow"

Fail == "Red"

\* the checks started so far, in order
Checks == SelectSeq(log, LAMBDA e : e.stage = "check")

\* whether the services can resolve a raw identifier
Resolves(w, dep) ==
    IF EndsWith(dep, DOT_TOML)
    THEN /\ dep \in DOMAIN w.manifests
         /\ \A k \in 1..Len(w.manifests[dep]) : w.manifests[dep][k].name \in DOMAIN w.registry
    ELSE StartsWith(dep, HTTPS) \/ dep \in DOMAIN w.registry

AllResolve == \A k \in 1..Len(deps) : Resolves(world, deps[k])

\* whether a repository answers every request made to it ("no release" is an answer)
HostAnswers(h) ==
    /\ h.repo # None /\ h.blob # None /\ h.content # None /\ h.bugs # None
    /\ h.workflows # None /\ h.runs # None /\ h.commits # None /\ h.metrics # None
    /\ h.latest_release.fetch # "err"

AllFetchesSucceed(w) ==
    /\ \A key \in DOMAIN w.host : HostAnswers(w.host[key])
    /\ \A url \in DOMAIN w.docs : w.docs[url].get # None /\ w.docs[url].page # None

\* the (crate, criterion) pairs run_checks is to produce rows for, in order:
\* crates with a source_url in list order, the selected criteria in catalog order
RECURSIVE Pairs(_, _, _)
Pairs(cs, k, selected) ==
    IF k > Len(cs) THEN <<>>
    ELSE (IF cs[k].source_url # None
          THEN [j \in 1..Len(selected) |->
                   [kind |-> selected[j].name, number |-> selected[j].number, at |-> k]]
          ELSE <<>>) \o Pairs(cs, k + 1, selected)

Expected == Pairs(crates, 1, selected_question(question))

\* the requests to the source host a criterion makes for a crate
SourceHostFetches(cargo_crate, name) ==
    CASE name = "Documentation" ->
            IF DocService_new(cargo_crate.name,
                   IF cargo_crate.documentation # None THEN Unwrap(cargo_crate.documentation)
                   ELSE Unwrap(cargo_crate.source_url)).doc_source = "GithubReadMe"
            THEN {"metrics"} ELSE {}
      [] name = "Changelog" -> {"repo", "blob", "latest_release"}
      [] name \in {"Tests", "TestsRunAgainstLatestLanguageVersion"} -> {"content"}
      [] name = "BugReportResponse" -> {"bugs"}
      [] name = "ContinuousIntegrationConfiguration" -> {"workflows"}
      [] name = "ContinuousIntegrationPasses" -> {"workflows", "runs"}
      [] name \in {"Usage", "LatestCommits"} -> {"commits"}
      [] name = "LatestRelease" -> {"latest_release"}
      [] OTHER -> {}

\* whether some request a criterion makes for a crate fails
FetchFails(w, cargo_crate, name) ==
    \E f \in SourceHostFetches(cargo_crate, name) :
        IF f = "latest_release"
        THEN Host(w, GithubService_new(Unwrap(cargo_crate.source_url))).latest_release.fetch = "err"
        ELSE Host(w, GithubService_new(Unwrap(cargo_crate.source_url)))[f] = None

\* the repository of the crate last evaluated
ProbeHost == Host(world, GithubService_new(Unwrap(probe.crate.source_url)))

\* the documentation service of the crate last evaluated
ProbeDoc ==
    DocService_new(probe.crate.name,
                   IF probe.crate.documentation # None THEN Unwrap(probe.crate.documentation)
                   ELSE Unwrap(probe.crate.source_url))

----------------------------------------------------------------------------
(* Properties of a run (Spec)                                              *)

\* C1: when a source-host fetch used by one criterion fails during run_checks, the
\* run still returns the whole matrix: one row for every (dependency with a
\* source_url, selected criterion) pair, the row of a pair whose fetch failed
\* having status Fail.
C1_FetchFailureDegradesOneCell ==
    (pc \in {"done", "panicked"} /\ AllResolve /\ ~AllFetchesSucceed(world)) =>
        /\ pc = "done"
        /\ Len(results) = Len(Expected)
        /\ \A k \in 1..Len(results) :
              FetchFails(world, crates[Expected[k].at], Expected[k].kind)
                  => results[k][1].status = Fail

\* C2: the matrix of run_checks holds no row for a crate without source_url: every
\* row comes from a check of a crate that has one, a finished run holds exactly
\* the rows of the crates that have one, and each crate without one passed so
\* far has left a notice and nothing else.
C2_NoRowWithoutSourceUrl ==
    pc \in {"run_checks", "done"} =>
        /\ Len(results) = Len(Checks)
        /\ \A k \in 1..Len(Checks) : crates[Checks[k].at].source_url # None
        /\ notices = [k \in 1..Len(notices) |->
                         crates[CHOOSE n \in 1..Len(crates) :
                                   /\ crates[n].source_url = None
                                   /\ Cardinality({m \in 1..n : crates[m].source_url = None}) = k
                               ].name]
        /\ Len(notices) = Cardinality({n \in 1..(IF pc = "done" THEN Len(crates) ELSE ci - 1) :
                                          crates[n].source_url = None})
        /\ pc = "done" => Len(results) = Len(Expected)

C2_Witness ==
    /\ pc = "done"
    /\ \E n \in 1..Len(crates) : crates[n].source_url = None
    /\ \E n \in 1..Len(crates) : crates[n].source_url # None
    /\ results # <<>>
    /\ notices # <<>>

\* C3: when every fetch succeeds, run_checks returns exactly one row for each
\* (dependency with a source_url, selected criterion) pair, in dependency order
\* and, within a dependency, in catalog order.
C3_OneRowPerPairInOrder ==
    (pc \in {"done", "panicked"} /\ AllResolve /\ AllFetchesSucceed(world)) =>
        /\ pc = "done"
        /\ Len(results) = Len(Expected)
        /\ \A k \in 1..Len(results) :
              /\ Len(results[k]) = 1
              /\ results[k][1].question = Some(Expected[k].number)
              /\ Checks[k].at = Expected[k].at
              /\ Checks[k].kind = Expected[k].kind

\* the messages of a failed resolution
ResolutionErrors ==
    {"Could not retrieve the crate information. The crates.io API might be down.",
     "Manifest::from_path: the manifest cannot be read"}

\* C5: if any raw identifier fails to resolve, the run aborts with a descriptive
\* error: CrateCheck::new never returns a crate list, resolution never goes past
\* the failing identifier, and no criterion is ever evaluated.
C5_ResolutionFailureAbortsRun ==
    ~AllResolve =>
        /\ pc \in {"new", "panicked"}
        /\ \A k \in 1..(di - 1) : Resolves(world, deps[k])
        /\ Checks = <<>>
        /\ results = <<>>
        /\ pc = "panicked" =>
              /\ ~Resolves(world, deps[di])
              /\ crates = <<>>
              /\ panic_message \in ResolutionErrors

C5_Witness ==
    /\ pc = "panicked"
    /\ ~AllResolve
    /\ di > 1
    /\ Len(log) = di
    /\ crates = <<>>
    /\ panic_message \in ResolutionErrors

----------------------------------------------------------------------------
(* Properties of one evaluator call (EvalSpec)                             *)

\* C6: for a remote version major.minor.patch and a download count, production
\* readiness is Pass iff major > 0, Partial iff major = 0, minor >= 1 and
\* downloads >= 500, and Fail otherwise.
C6_ProductionReadinessByVersion ==
    \A major \in EvalMajors, minor \in EvalMinors, patch \in EvalPatches :
        (/\ probe.check = "ProductionReadiness"
         /\ probe.crate.version # None
         /\ Unwrap(probe.crate.version).remote = Some(VersionText(major, minor, patch))) =>
            /\ ~probe.out.panic
            /\ probe.out.status = Pass <=> major > 0
            /\ probe.out.status = Partial <=>
                  (major = 0 /\ minor >= 1 /\ probe.crate.downloads >= 500)
            /\ probe.out.status = Fail <=>
                  (major = 0 /\ (minor = 0 \/ probe.crate.downloads < 500))

C6_Witness ==
    /\ probe.check = "ProductionReadiness"
    /\ probe.crate.version # None
    /\ Unwrap(probe.crate.version).remote = Some(V_0_3_0)
    /\ probe.crate.downloads = 500
    /\ probe.out.status = Partial

\* whether the community profile reports an actual README file
ReadmePresent(h) ==
    /\ "readme" \in DOMAIN Unwrap(h.metrics).files
    /\ Unwrap(h.metrics).files["readme"] # None

\* the documentation result the specification gives for a hosted doc page
HostedDocResult(d, score) ==
    IF ~Unwrap(d.get) THEN [status |-> Fail, known |-> FALSE]
    ELSE IF Unwrap(d.page).warnings > 0 THEN [status |-> Fail, known |-> FALSE]
    ELSE IF ~score.ok THEN [status |-> Partial, known |-> FALSE]
    ELSE [status |-> IF score.value >= 50 THEN Pass
                     ELSE IF score.value >= 10 THEN Partial ELSE Fail,
          known |-> TRUE]

\* C7: the documentation evaluator returns Fail when the page is absent, Pass for
\* a README on the source host that is present, and for a hosted doc page Fail
\* when the build failed, Partial when the coverage is unparseable, else Pass
\* for a score >= 50, Partial for 10 <= score < 50 and Fail below 10, the
\* explanation stating the score.
C7_DocumentationCases ==
    (/\ probe.check = "Documentation"
     /\ (probe.crate.documentation # None \/ probe.crate.source_url # None)) =>
        IF ProbeDoc.doc_source = "GithubReadMe"
        THEN LET h == Host(world, GithubService_new(ProbeDoc.doc_url))
             IN  h.metrics # None =>
                    /\ ~probe.out.panic
                    /\ probe.out.status = IF ReadmePresent(h) THEN Pass ELSE Fail
        ELSE LET d == DocHost(world, ProbeDoc)
                 expected == HostedDocResult(d, get_rust_doc_coverage_score(world, ProbeDoc))
             IN  (d.get # None /\ d.page # None) =>
                    /\ ~probe.out.panic
                    /\ probe.out.status = expected.status
                    /\ expected.known =>
                          probe.out.explanation =
                              ToString(get_rust_doc_coverage_score(world, ProbeDoc).value)
                                  \o "% of the crate is documented"

\* C8: the changelog evaluator returns Pass iff a CHANGELOG file exists at the
\* default branch or the latest release has non-empty notes, and Fail otherwise.
C8_ChangelogPassIffFileOrNotes ==
    (/\ probe.check = "Changelog"
     /\ probe.crate.source_url # None
     /\ ProbeHost.repo # None /\ ProbeHost.blob # None
     /\ ProbeHost.latest_release.fetch # "err") =>
        /\ ~probe.out.panic
        /\ probe.out.status =
              IF \/ <<Unwrap(Unwrap(ProbeHost.repo).default_branch), "CHANGELOG.md">>
                        \in Unwrap(ProbeHost.blob)
                 \/ /\ ProbeHost.latest_release.fetch = "ok"
                    /\ ProbeHost.latest_release.body \notin {None, Some("")}
              THEN Pass ELSE Fail

\* C9: the bug-response evaluator returns Pass when there is no open bug, Fail
\* when at least one open bug has no response (comments not > 1), and Pass only
\* when every open bug has one.
C9_BugResponseFailIfAnyUnanswered ==
    (/\ probe.check = "BugReportResponse"
     /\ probe.crate.source_url # None
     /\ ProbeHost.bugs # None) =>
        /\ ~probe.out.panic
        /\ probe.out.status =
              IF \A k \in 1..Len(Unwrap(ProbeHost.bugs)) : Unwrap(ProbeHost.bugs)[k].comments > 1
              THEN Pass ELSE Fail

\* C10: the usage evaluator returns Pass iff the fetched commit list holds at least
\* one commit, and Fail otherwise: a fetch that succeeds with an empty list is Fail.
C10_UsagePassIffSomeCommit ==
    (/\ probe.check = "Usage"
     /\ probe.crate.source_url # None
     /\ ProbeHost.commits # None) =>
        /\ ~probe.out.panic
        /\ probe.out.status = IF Unwrap(ProbeHost.commits) # <<>> THEN Pass ELSE Fail

\* C11: for every repository state, the state without a commit included, the
\* latest-commit evaluator returns a result; with d the days since the most
\* recent commit, its status is Fail iff d < 365 and Pass iff d >= 365, and its
\* explanation states d.
C11_LatestCommitsByAge ==
    (/\ probe.check = "LatestCommits"
     /\ probe.crate.source_url # None
     /\ ProbeHost.commits # None) =>
        /\ ~probe.out.panic
        /\ Unwrap(ProbeHost.commits) # <<>> =>
              /\ probe.out.status =
                    IF Unwrap(ProbeHost.commits)[1].days_ago < 365 THEN Fail ELSE Pass
              /\ probe.out.explanation =
                    "The last commit was " \o ToString(Unwrap(ProbeHost.commits)[1].days_ago)
                        \o " day(s) ago"

\* C12: the latest-release evaluator returns Fail when the repository has no
\* release; otherwise, with d the days since the release date, Partial iff
\* d > 365 and Pass iff d <= 365, the Pass explanation stating d.
C12_LatestReleaseByAge ==
    (/\ probe.check = "LatestRelease"
     /\ probe.crate.source_url # None
     /\ ProbeHost.latest_release.fetch # "err") =>
        /\ ~probe.out.panic
        /\ IF ProbeHost.latest_release.fetch = "none"
           THEN probe.out.status = Fail
           ELSE /\ probe.out.status =
                      IF Unwrap(ProbeHost.latest_release.created_at).days_ago > 365
                      THEN Partial ELSE Pass
                /\ probe.out.status = Pass =>
                      probe.out.explanation =
                          "The last release was "
                              \o ToString(Unwrap(ProbeHost.latest_release.created_at).days_ago)
                              \o " day(s) ago"

C12_Witness ==
    /\ probe.check = "LatestRelease"
    /\ probe.crate.source_url # None
    /\ ProbeHost.latest_release.fetch = "ok"
    /\ Unwrap(ProbeHost.latest_release.created_at).days_ago = 365
    /\ probe.out.status = Pass
    /\ probe.out.explanation = "The last release was 365 day(s) ago"

\* the failed-run count the CI-passes evaluator asks the source host for: the
\* runs of a workflow that failed on master outside a pull request
FailedRunCount(h, id) ==
    Cardinality({k \in 1..Len(Unwrap(h.runs)[id]) :
                    /\ Unwrap(h.runs)[id][k].status = "failed"
                    /\ Unwrap(h.runs)[id][k].branch = "master"
                    /\ ~Unwrap(h.runs)[id][k].pull_request})

\* the workflows of a repository with at least one such run
FailingWorkflows(h) ==
    {id \in {Unwrap(h.workflows)[k].id : k \in 1..Len(Unwrap(h.workflows))} :
        FailedRunCount(h, id) >= 1}

\* C13: the CI-passes evaluator returns Fail iff the workflow list is empty; for
\* a non-empty list the status is Pass whatever the failed-run counts are, and
\* the explanation says that no workflow is failing iff no workflow has a
\* failed run, and otherwise states the number of workflows that have one.
C13_CiStatusPassWhateverFails ==
    (/\ probe.check = "ContinuousIntegrationPasses"
     /\ probe.crate.source_url # None
     /\ ProbeHost.workflows # None /\ ProbeHost.runs # None) =>
        /\ ~probe.out.panic
        /\ probe.out.status = Fail <=> Unwrap(ProbeHost.workflows) = <<>>
        /\ Unwrap(ProbeHost.workflows) # <<>> =>
              /\ probe.out.status = Pass
              /\ probe.out.explanation =
                    IF FailingWorkflows(ProbeHost) = {}
                    THEN "No failing workflow found"
                    ELSE ToString(Cardinality(FailingWorkflows(ProbeHost)))
                             \o " of the workflows failed"

C13_Witness ==
    /\ probe.check = "ContinuousIntegrationPasses"
    /\ probe.crate.source_url # None
    /\ ProbeHost.workflows # None /\ ProbeHost.runs # None
    /\ Len(Unwrap(ProbeHost.workflows)) = 2
    /\ FailedRunCount(ProbeHost, 1) = 2
    /\ FailedRunCount(ProbeHost, 2) = 0
    /\ Unwrap(ProbeHost.runs)[2] # <<>>
    /\ probe.out.status = Pass
    /\ probe.out.explanation = "1 of the workflows failed"

\* whether an entry of the root listing is a directory whose path contains "test"
TestDirectory(entry) ==
    /\ entry.type = "dir"
    /\ \E k \in 1..(Len(entry.path) - 3) : SubSeq(entry.path, k, k + 3) = <<"t", "e", "s", "t">>

\* C14: the tests-present evaluator returns Pass iff the root listing holds at
\* least one directory whose path contains "test", and Fail otherwise; a file
\* whose path contains "test" does not count.
C14_TestsPassIffTestDirectory ==
    (/\ probe.check = "Tests"
     /\ probe.crate.source_url # None
     /\ ProbeHost.content # None) =>
        /\ ~probe.out.panic
        /\ probe.out.status =
              IF \E k \in 1..Len(Unwrap(ProbeHost.content)) :
                     TestDirectory(Unwrap(ProbeHost.content)[k])
              THEN Pass ELSE Fail

C14_Witness ==
    /\ probe.check = "Tests"
    /\ probe.crate.source_url # None
    /\ ProbeHost.content # None
    /\ \E k \in 1..Len(Unwrap(ProbeHost.content)) :
           /\ Unwrap(ProbeHost.content)[k].type = "file"
           /\ Unwrap(ProbeHost.content)[k].path = <<"t", "e", "s", "t", ".", "r", "s">>
    /\ probe.out.status = Fail

\* the caveat of the tests-against-latest-language-version evaluator
LatestLanguageCaveat == " or if they run with latest version"

\* C15 as stated: for every root listing the tests-against-latest-language-version
\* evaluator returns the status of the tests-present evaluator, and its
\* explanation is the tests-present explanation with the caveat appended.
C15_LatestLanguageAppendsCaveat ==
    (/\ probe.check = "TestsRunAgainstLatestLanguageVersion"
     /\ probe.crate.source_url # None
     /\ ProbeHost.content # None) =>
        /\ ~probe.out.panic
        /\ probe.out.status = check_tests(world, probe.crate).status
        /\ probe.out.explanation =
              check_tests(world, probe.crate).explanation \o LatestLanguageCaveat

\* C15 amended: the evaluator returns the status of the tests-present evaluator;
\* its explanation is the tests-present explanation with the caveat appended
\* when that status is Pass, and the tests-present explanation itself when it
\* is Fail.
C15_LatestLanguageCaveatOnPass ==
    (/\ probe.check = "TestsRunAgainstLatestLanguageVersion"
     /\ probe.crate.source_url # None
     /\ ProbeHost.content # None) =>
        /\ ~probe.out.panic
        /\ probe.out.status = check_tests(world, probe.crate).status
        /\ probe.out.status \in {Pass, Fail}
        /\ probe.out.explanation =
              IF probe.out.status = Pass
              THEN check_tests(world, probe.crate).explanation \o LatestLanguageCaveat
              ELSE check_tests(world, probe.crate).explanation

C15_Witness ==
    /\ probe.check = "TestsRunAgainstLatestLanguageVersion"
    /\ probe.crate.source_url # None
    /\ ProbeHost.content # None
    /\ Unwrap(ProbeHost.content) # <<>>
    /\ probe.out.status = Fail
    /\ probe.out.explanation = "No test files found"

\* the number of dot-separated segments of a text
Segments(text) == Cardinality({k \in 1..Len(text) : text[k] = "."}) + 1

\* C16: version parsing extracts the first three numeric components of every
\* text major.minor.patch followed by optional pre-release text, and for every
\* text of fewer than three dot-separated segments it returns an error instead
\* of a Version, without crashing.
C16_VersionParsing ==
    probe.check = "from_version_text" =>
        /\ \A major \in EvalMajors, minor \in EvalMinors, patch \in EvalPatches,
              suffix \in EvalSuffixes :
              probe.out.id = VersionText(major, minor, patch) \o suffix =>
                  /\ ~probe.out.panic
                  /\ probe.out.major = major
                  /\ probe.out.minor = minor
                  /\ probe.out.patch = patch
        /\ Segments(probe.out.id) < 3 =>
              /\ ~probe.out.panic
              /\ "major" \notin DOMAIN probe.out

----------------------------------------------------------------------------
(* Properties of resolution and of the requests of a run (Spec)            *)

\* the Dependency the specification gives for a source URL
SourceOnly(url) ==
    [name |-> <<>>, source_url |-> Some(url), description |-> None,
     documentation |-> None, homepage |-> None, version |-> None,
     created_at |-> None, updated_at |-> None, downloads |-> 0]

\* C17: a raw identifier that starts with the source-host URL prefix and does not
\* end with the manifest extension resolves to exactly one Dependency with only
\* source_url populated, and no registry lookup or other request is made for it.
C17_SourceUrlResolvesWithoutLookup ==
    [][(/\ pc = "new" /\ di <= Len(deps)
        /\ StartsWith(deps[di], HTTPS)
        /\ ~EndsWith(deps[di], DOT_TOML)) =>
            /\ pc' = "new"
            /\ di' = di + 1
            /\ crates' = Append(crates, SourceOnly(deps[di]))
            /\ Len(log') = Len(log) + 1
            /\ log'[Len(log')].requests = <<>>]_vars

C17_Witness ==
    /\ pc = "done"
    /\ Len(deps) = 2
    /\ deps[2] = URL_r
    /\ URL_r \notin DOMAIN world.registry
    /\ Len(crates) >= 2
    /\ crates[Len(crates)] = SourceOnly(URL_r)
    /\ log[2].requests = <<>>
    /\ log[1].requests # <<>>

\* the local version the specification gives for an entry of a manifest
PinnedOrPlaceholder(entry) ==
    IF entry.dependency.version = None THEN Some(MISSING_FIELD_PLACEHOLDER)
    ELSE entry.dependency.version

\* C18: for every entry of a manifest's dependency set, the resolved
\* Dependency's local version is the version the manifest pins for the entry,
\* and the sentinel "N/A" exactly when it pins none, for entries written as a
\* plain version string and as a detail table alike.
C18_ManifestLocalVersion ==
    (/\ pc \in {"new", "run_checks", "done"}
     /\ di > 1
     /\ EndsWith(deps[1], DOT_TOML)) =>
        \A k \in 1..Len(world.manifests[deps[1]]) :
            /\ crates[k].name = world.manifests[deps[1]][k].name
            /\ crates[k].version # None
            /\ Unwrap(crates[k].version).local =
                  PinnedOrPlaceholder(world.manifests[deps[1]][k])

\* the kinds of source-host fetch that several criteria share
SharedFetches == {"metrics", "latest_release", "content", "workflows", "commits"}

\* how many times the checks of a crate have sent a request of a kind to the source host
Sent(c, what) ==
    Cardinality({kj \in {<<k, j>> : k \in 1..Len(Checks), j \in 1..4} :
                    /\ Checks[kj[1]].at = c
                    /\ kj[2] <= Len(Checks[kj[1]].requests)
                    /\ Checks[kj[1]].requests[kj[2]] = request("host", what)})

\* C20: within one run_checks pass with all criteria selected, each kind of
\* source-host fetch is issued at most once per dependency.
C20_EachFetchAtMostOncePerCrate ==
    (question = None /\ pc \in {"run_checks", "done"}) =>
        \A c \in 1..Len(crates), what \in SharedFetches : Sent(c, what) <= 1

----------------------------------------------------------------------------
(* Further properties of one evaluator call (EvalSpec)                     *)

\* the open bugs of a repository that have no response: comments not > 1
Unanswered(h) ==
    {k \in 1..Len(Unwrap(h.bugs)) : ~(Unwrap(h.bugs)[k].comments > 1)}

\* C21: when the bug-response evaluator returns Fail, the number stated in its
\* explanation is the number of open bugs without a response, which is at
\* least 1.
C21_BugResponseStatesUnanswered ==
    (/\ probe.check = "BugReportResponse"
     /\ probe.crate.source_url # None
     /\ ProbeHost.bugs # None
     /\ ~probe.out.panic
     /\ probe.out.status = Fail) =>
        /\ Cardinality(Unanswered(ProbeHost)) >= 1
        /\ probe.out.explanation =
              "There are " \o ToString(Cardinality(Unanswered(ProbeHost)))
                  \o " open bugs with no response from the maintainer(s)"

\* whether the repository has a CHANGELOG.md at its default branch
ChangelogFile(h) ==
    <<Unwrap(Unwrap(h.repo).default_branch), "CHANGELOG.md">> \in Unwrap(h.blob)

\* C22: when the repository has both a CHANGELOG file at the default branch and
\* a latest release with notes, the changelog explanation is the CHANGELOG-file
\* one; the release-notes explanation appears only when the file is absent.
C22_ChangelogFileTakesPrecedence ==
    (/\ probe.check = "Changelog"
     /\ probe.crate.source_url # None
     /\ ProbeHost.repo # None /\ ProbeHost.blob # None) =>
        /\ ~probe.out.panic
        /\ ChangelogFile(ProbeHost) =>
              probe.out.explanation = "The crate release has a CHANGELOG.md note"
        /\ probe.out.explanation = "The crate has a release changelog" =>
              ~ChangelogFile(ProbeHost)

C22_Witness ==
    /\ probe.check = "Changelog"
    /\ probe.crate.source_url # None
    /\ ProbeHost.repo # None /\ ProbeHost.blob # None
    /\ ChangelogFile(ProbeHost)
    /\ ProbeHost.latest_release.fetch = "ok"
    /\ ProbeHost.latest_release.body = Some("notes")
    /\ probe.out.explanation = "The crate release has a CHANGELOG.md note"

\* the workflows of a repository that have at least one failed run outside a
\* pull request on the repository's default branch
FailingOnDefaultBranch(h) ==
    {id \in {Unwrap(h.workflows)[k].id : k \in 1..Len(Unwrap(h.workflows))} :
        \E k \in 1..Len(Unwrap(h.runs)[id]) :
            /\ Unwrap(h.runs)[id][k].status = "failed"
            /\ Unwrap(h.runs)[id][k].branch = Unwrap(Unwrap(h.repo).default_branch)
            /\ ~Unwrap(h.runs)[id][k].pull_request}

\* C23: the failed-run count the CI-passes evaluator uses counts the failed,
\* non-pull-request runs on the repository's default branch, whatever its
\* name: the evaluator reports the workflows that fail on the default branch.
C23_FailedRunsOnDefaultBranch ==
    (/\ probe.check = "ContinuousIntegrationPasses"
     /\ probe.crate.source_url # None
     /\ ProbeHost.repo # None
     /\ ProbeHost.workflows # None /\ ProbeHost.runs # None
     /\ Unwrap(ProbeHost.workflows) # <<>>) =>
        /\ ~probe.out.panic
        /\ probe.out.explanation =
              IF FailingOnDefaultBranch(ProbeHost) = {}
              THEN "No failing workflow found"
              ELSE ToString(Cardinality(FailingOnDefaultBranch(ProbeHost)))
                       \o " of the workflows failed"

\* what the changelog and release-recency evaluators say of a repository
\* without a release
NoReleaseExplanations ==
    {"There has no been release.", "The crate has no release changelog or CHANGELOG.md"}

\* C24: the latest-release fetch distinguishes a repository without a release
\* from a failed fetch: the changelog and release-recency evaluators report
\* "no release" for the former only, and do not report it for a failed fetch.
C24_FailedFetchIsNotNoRelease ==
    (/\ probe.check \in {"Changelog", "LatestRelease"}
     /\ probe.crate.source_url # None
     /\ ProbeHost.repo # None /\ ProbeHost.blob # None) =>
        /\ ~probe.out.panic
        /\ (ProbeHost.latest_release.fetch = "none" /\ ~ChangelogFile(ProbeHost)) =>
              probe.out.explanation \in NoReleaseExplanations
        /\ ProbeHost.latest_release.fetch = "err" =>
              probe.out.explanation \notin NoReleaseExplanations

\* the non-empty path segments of a URL after the host marker
PathSegments(url) ==
    NonEmpty(Split(SubSeq(url, Find(url, GITHUB_COM) + Len(GITHUB_COM), Len(url)), <<"/">>))

\* C25: GithubService::new takes as owner and repo the first two non-empty path
\* segments after "github.com", and for a URL without "github.com" or with fewer
\* than two such segments it fails with a returned error, never with a crash.
C25_InvalidUrlIsReturnedError ==
    probe.check = "GithubService::new" =>
        /\ ~probe.out.panic
        /\ (Contains(probe.out.url, GITHUB_COM) /\ Len(PathSegments(probe.out.url)) >= 2) =>
              /\ probe.out.owner = PathSegments(probe.out.url)[1]
              /\ probe.out.repo = PathSegments(probe.out.url)[2]

\* the repository a README documentation link points at
ProbeReadmeHost == Host(world, GithubService_new(ProbeDoc.doc_url))

\* C26: for a documentation source that is a README on the source host,
\* check_doc_page_exists is true iff the community profile reports an actual
\* README file; a "readme" entry that is present but null gives false.
C26_ReadmePageExistsIffReadmeFile ==
    (/\ probe.check = "check_doc_page_exists"
     /\ (probe.crate.documentation # None \/ probe.crate.source_url # None)
     /\ ProbeDoc.doc_source = "GithubReadMe"
     /\ ProbeReadmeHost.metrics # None) =>
        /\ ~probe.out.panic
        /\ probe.out.value = ReadmePresent(ProbeReadmeHost)

\* C30: check_documentation classifies the documentation URL of the crate when
\* it is present and the source_url only when it is absent; the link is a README
\* on the source host iff it contains "github.com", and otherwise the hosted doc
\* page at the docs.rs base followed by "/" and the crate name.
C30_DocumentationLinkClassification ==
    (/\ probe.check = "DocService::new"
     /\ (probe.crate.documentation # None \/ probe.crate.source_url # None)) =>
        /\ ~probe.out.panic
        /\ Unwrap(probe.out.doc).doc_source =
              IF Contains(IF probe.crate.documentation # None
                          THEN Unwrap(probe.crate.documentation)
                          ELSE Unwrap(probe.crate.source_url), GITHUB_COM)
              THEN "GithubReadMe" ELSE "RustDoc"
        /\ Unwrap(probe.out.doc).doc_source = "RustDoc" =>
              Unwrap(probe.out.doc).doc_url = RUST_DOC_URL \o <<"/">> \o probe.crate.name

\* a crate with a source_url on github.com whose documentation URL is elsewhere
\* and is not the page of the crate: a hosted doc page named after the crate
C30_Witness ==
    /\ probe.check = "DocService::new"
    /\ probe.crate.source_url = Some(URL_r)
    /\ probe.crate.documentation = Some(DOC_serde)
    /\ ~probe.out.panic
    /\ Unwrap(probe.out.doc).doc_source = "RustDoc"
    /\ Unwrap(probe.out.doc).doc_url = DOC_r

----------------------------------------------------------------------------
(* Further properties of a run (Spec)                                      *)

\* C27: every raw identifier is resolved before the first criterion is
\* evaluated: all entries of the resolution stage precede all entries of the
\* evaluation stage, the resolution stage sends requests to the registry and
\* reads manifests only, and the evaluation stage asks the source host and
\* docs.rs only.
C27_ResolutionPrecedesEvaluation ==
    /\ Checks # <<>> => di > Len(deps)
    /\ \A i \in 1..Len(log) : \A j \in 1..Len(log) :
          (log[i].stage = "resolve" /\ log[j].stage = "check") => i < j
    /\ \A i \in 1..Len(log) : \A r \in 1..Len(log[i].requests) :
          IF log[i].stage = "resolve"
          THEN log[i].requests[r].to \in {"registry", "file"}
          ELSE log[i].requests[r].to \notin {"registry", "file"}

\* a run of two raw identifiers, both resolved with requests, then evaluated
\* with requests
C27_Witness ==
    /\ pc = "done"
    /\ Len(deps) = 2
    /\ log[1].stage = "resolve" /\ log[1].requests # <<>>
    /\ log[2].stage = "resolve" /\ log[2].requests # <<>>
    /\ \E k \in 1..Len(log) : log[k].stage = "check" /\ log[k].requests # <<>>

\* the number of a criterion in the catalog
NumberOf(kind) == list[CHOOSE n \in 1..12 : list[n].name = kind].number

\* C28: every row of the matrix of run_checks carries the catalog number of the
\* criterion whose evaluator produced it; no row has an absent number.
C28_EveryRowCarriesItsNumber ==
    pc \in {"run_checks", "done"} =>
        /\ Len(results) = Len(Checks)
        /\ \A k \in 1..Len(results) : \A r \in 1..Len(results[k]) :
              /\ results[k][r].question # None
              /\ results[k][r].question = Some(NumberOf(Checks[k].kind))

\* run_checks has returned the rows of all twelve criteria
C28_Witness ==
    /\ pc = "done"
    /\ question = None
    /\ Len(results) >= 12
    /\ results[12][1].question = Some("12")

\* whether a crate was resolved from a source URL
FromSourceUrl(cargo_crate) == cargo_crate.source_url # None /\ cargo_crate.version = None

\* C29: with all criteria selected, identifiers that resolve and fetches that
\* succeed, a run with a dependency given as a source URL completes, and the
\* matrix holds a row for each of the twelve criteria for that dependency, the
\* production-readiness one included.
C29_SourceUrlDependencyGetsFullBlock ==
    (/\ pc \in {"done", "panicked"}
     /\ question = None
     /\ AllResolve /\ AllFetchesSucceed(world)
     /\ \E d \in 1..Len(deps) : StartsWith(deps[d], HTTPS) /\ ~EndsWith(deps[d], DOT_TOML)) =>
        /\ pc = "done"
        /\ \A c \in 1..Len(crates) : FromSourceUrl(crates[c]) =>
              \A n \in 1..12 : \E k \in 1..Len(results) :
                  /\ Checks[k].at = c
                  /\ Checks[k].kind = CheckNames[n]
                  /\ Len(results[k]) = 1

====
